---- MODULE Spec2Model ----
(***************************************************************************)
(* A model of the gensketch backend: the alignment stack (row packing and  *)
(* windowed cache), the sorted alignment search list it is built on, the   *)
(* split (viewport) bound tracker and the split grid that owns one stack   *)
(* per (track, split).                                                     *)
(*                                                                         *)
(* The specifications of the module:                                       *)
(*   SpecStack  one AlignmentStack driven by update / clear calls          *)
(*   SpecSplit  one Split driven by set_focused_region /                   *)
(*              set_max_render_window calls                                *)
(*   SpecGrid   a SplitGrid driven by add_track / add_split /              *)
(*              update_focused_region / set_max_render_window calls        *)
(*   SpecConc   a SplitGrid whose add_track, add_split,                    *)
(*              update_focused_region and set_max_render_window calls run  *)
(*              on concurrent threads, one step per shared access          *)
(*   SpecList   one AlignmentSearchList driven by push / pop / sort /      *)
(*              search calls                                               *)
(*   SpecInterval  one GenomicInterval driven by contract / overlaps calls *)
(*   SpecDiff   iter_sequence_diffs applied to a read and a reference view *)
(*   SpecPair   pair_reads applied to a list of aligned reads              *)
(*   SpecSync   one split of a SplitGrid, its RwLock and its stack       *)
(*              readers under concurrent add_track,                        *)
(*              update_focused_region and set_max_render_window calls;     *)
(*              SpecSyncFair adds the fairness of the scheduler            *)
(* Each specification leaves the variables of the others at their idle     *)
(* value.                                                                  *)
(***************************************************************************)
EXTENDS Integers, Sequences, FiniteSets, TLC

VARIABLES
    \* ---- AlignmentStack (alignments/stack.rs) ----
    rows,              \* AlignmentStack.rows: Vec<VecDeque<T>>
    buffered_region,   \* AlignmentStack.buffered_region
    op,                \* the last call made on the stack: "new", "update", "clear"
    incoming,          \* the alignments of the last update, as the search list built from them
    prev_rows,         \* rows before the last call
    calls,             \* number of calls made on the stack so far
    ret,               \* how the last call ended: "ok", "err" (Result::Err) or "panic"
    \* ---- Split (interface/split.rs) ----
    split,             \* the Split struct, or NoSplit before construction
    split_ret,         \* result of the last Split call: "ok" / "err"
    split_op,          \* the last Split call
    \* ---- SplitGrid (interface/split_grid.rs) ----
    grid,              \* the SplitGrid and the record of its last call
    \* ---- SplitGrid under concurrent calls (interface/split_grid.rs) ----
    conc,              \* the shared maps and locks of the grid and the position of each thread
    \* ---- AlignmentSearchList (alignments/alignment.rs) ----
    search_list,       \* the search list, its sort state and the record of its last call
    \* ---- GenomicInterval (bio_util/genomic_coordinates.rs) ----
    interval,          \* an interval and the record of the last call made on it
    \* ---- iter_sequence_diffs (alignments/diff.rs) ----
    diff,              \* a read, a reference view and the diffs computed from them
    \* ---- pair_reads (file_formats/sam_bam/aligned_read.rs) ----
    pairing,           \* the reads handed to pair_reads and the units it returned
    \* ---- SplitGrid, the locks of one split and its stack readers (interface/split_grid.rs) ----
    sync               \* the split, its RwLock, the stacks' regions and each thread's position

vars == <<rows, buffered_region, op, incoming, prev_rows, calls, ret,
          split, split_ret, split_op, grid, conc, search_list, interval, diff, pairing, sync>>

stack_vars == <<rows, buffered_region, op, incoming, prev_rows, calls, ret>>
split_vars == <<split, split_ret, split_op>>
grid_vars == <<grid>>
conc_vars == <<conc>>
list_vars == <<search_list>>
interval_vars == <<interval>>
diff_vars == <<diff>>
pair_vars == <<pairing>>
sync_vars == <<sync>>

(***************************************************************************)
(* Bounds of the model.                                                    *)
(***************************************************************************)
\* Largest genomic coordinate of an alignment or a stack region.
MaxPos == 2
\* Alignment ids are 1..MaxId (ids are strings in the code; only their order matters).
MaxId == 2
\* Largest number of alignments passed to one update call.
MaxIn == 2
\* Largest number of update / clear calls made on one stack.
MaxCalls == 2

\* Largest coordinate of a focused region handed to a split.
MaxSplitPos == 7
\* Largest max_render_window handed to a split (the application's default is 10000).
MaxWindow == 6
\* Lengths of the contigs of the reference sequence.
LenX == 6
LenY == 2
\* Largest number of tracks and of splits of a split grid.
MaxTracks == 1
MaxSplits == 2
\* Largest coordinate of a focused region handed to a split grid.
MaxGridPos == 4
\* Largest number of calls made on one split grid.
MaxGridCalls == 3
\* Number of threads that call update_focused_region concurrently with the other calls.
MaxUpdateThreads == 1
\* Largest length of the Vec a search list is built from.
MaxListLen == 3
\* Largest number of calls made on one search list.
MaxListCalls == 2
\* Largest coordinate of an interval handed to contract / overlaps.
MaxIntervalPos == 3
\* Largest number of calls made on one interval.
MaxIntervalCalls == 2
\* Largest number of entries of a CIGAR string and largest length of one entry.
MaxCigarOps == 2
MaxCigarLen == 2
\* Largest position of a read and number of bases of a reference view.
MaxDiffPos == 2
MaxViewLen == 3

\* Contig names.
SeqNames == {"X", "Y"}

(***************************************************************************)
(* bio_util/genomic_coordinates.rs                                         *)
(***************************************************************************)
\* u64 subtraction that stops at 0 (u64::saturating_sub).
saturating_sub(a, b) == IF a >= b THEN a - b ELSE 0

Min(a, b) == IF a <= b THEN a ELSE b
Max(a, b) == IF a >= b THEN a ELSE b

\* GenomicRegion { seq_name, interval: { start, end } }
Region(seq_name, start, end) == [seq_name |-> seq_name, start |-> start, end |-> end]

\* GenomicRegion::new / GenomicInterval::new accept exactly end >= start.
ValidInterval(start, end) == end >= start

\* GenomicInterval::len
RegionLen(r) == r.end - r.start

(***************************************************************************)
(* alignments/alignment.rs : AlignmentSearchList                           *)
(***************************************************************************)
\* Option::None for an index or a popped element.
None == -1

\* A record implementing the Alignment trait: id, start, end.
Aln(id, start, end) == [id |-> id, start |-> start, end |-> end]

\* The key (start, id) compared as a tuple.
StartKeyLeq(a, b) == a.start < b.start \/ (a.start = b.start /\ a.id <= b.id)
\* The key (end, id) compared as a tuple.
EndKeyLeq(a, b) == a.end < b.end \/ (a.end = b.end /\ a.id <= b.id)

\* The sort key chosen by a sort state: "start" for SortStart, "end" for SortEnd.
KeyLeq(kind, a, b) == IF kind = "start" THEN StartKeyLeq(a, b) ELSE EndKeyLeq(a, b)

\* Insert x into the sorted sequence s after every element whose key is <= x's
\* (the insertion step of a stable sort).
RECURSIVE InsertStable(_, _, _)
InsertStable(s, x, kind) ==
    IF s = <<>> THEN <<x>>
    ELSE IF KeyLeq(kind, s[Len(s)], x) THEN Append(s, x)
    ELSE Append(InsertStable(SubSeq(s, 1, Len(s) - 1), x, kind), s[Len(s)])

\* Vec::sort_by_key: a stable sort.
RECURSIVE SortStable(_, _)
SortStable(s, kind) ==
    IF s = <<>> THEN <<>>
    ELSE InsertStable(SortStable(SubSeq(s, 1, Len(s) - 1), kind), s[Len(s)], kind)

\* A conversion that keeps the order of the Vec.
from_vec_unsorted(item) == item

\* From<Vec<T>> for AlignmentSearchList<T, SortStart>
from_vec(item) == SortStable(item, "start")

\* AlignmentSearchList<T, SortStart>::sort_by_end
sort_by_end(inner) == SortStable(inner, "end")

\* A push that compares the start coordinates only.
push_fails_start_only(inner, value) ==
    /\ inner # <<>>
    /\ value.start < inner[Len(inner)].start

\* AlignmentSearchList<T, SortStart>::push: Ok appends, Err leaves the list alone.
push_fails(inner, value) ==
    /\ inner # <<>>
    /\ LET last == inner[Len(inner)]
       IN value.start < last.start \/ (value.start = last.start /\ value.id < last.id)

\* A panic: an index out of the range of the Vec, or a usize subtraction below 0.
Panic == -2

\* The binary search of search_after without its loop.
search_after_no_loop(inner, min_start, low, high) == low

\* The binary search loop of search_after; indices are 0-based as in the code.
RECURSIVE search_after_loop(_, _, _, _)
search_after_loop(inner, min_start, low, high) ==
    IF low < high
    THEN LET mid == (low + high) \div 2
         IN IF mid >= Len(inner) THEN Panic
            ELSE IF inner[mid + 1].start < min_start
            THEN search_after_loop(inner, min_start, mid + 1, high)
            ELSE search_after_loop(inner, min_start, low, mid)
    ELSE low

\* AlignmentSearchList<T, SortStart>::search_after
search_after(inner, min_start) ==
    IF inner = <<>> THEN None
    ELSE IF inner[Len(inner)].start < min_start THEN None
    ELSE search_after_loop(inner, min_start, 0, Len(inner) - 1)

\* The binary search of search_before without its loop.
search_before_no_loop(inner, max_end, low, high) == low

\* The binary search loop of search_before.
RECURSIVE search_before_loop(_, _, _, _)
search_before_loop(inner, max_end, low, high) ==
    IF low < high
    THEN LET mid == ((low + high) \div 2) + 1
         IN IF mid >= Len(inner) THEN Panic
            ELSE IF inner[mid + 1].end > max_end
            THEN IF mid = 0 THEN Panic
                 ELSE search_before_loop(inner, max_end, low, mid - 1)
            ELSE search_before_loop(inner, max_end, mid, high)
    ELSE low

\* AlignmentSearchList<T, SortEnd>::search_before
search_before(inner, max_end) ==
    IF inner = <<>> THEN None
    ELSE IF inner[1].end > max_end THEN None
    ELSE search_before_loop(inner, max_end, 0, Len(inner) - 1)

\* Vec::remove(i), i 0-based.
RemoveAt(s, i) == SubSeq(s, 1, i) \o SubSeq(s, i + 2, Len(s))

(***************************************************************************)
(* alignments/stack.rs : AlignmentStack                                    *)
(***************************************************************************)
PADDING == 1

\* u64::MAX: larger than every coordinate of the model.
u64_MAX == Max(MaxPos, MaxSplitPos) + 1

\* The closure of trim's retain: the alignment is kept.
retained(alignment, region) ==
    region.start <= alignment.end /\ region.end >= alignment.start

\* A trim that filters the rows and keeps the rows it emptied.
trim_keep_rows(rs, region) ==
    [r \in 1..Len(rs) |-> SelectSeq(rs[r], LAMBDA al : retained(al, region))]

\* AlignmentStack::trim, on rows rs with self.buffered_region = region.
trim(rs, region) ==
    SelectSeq([r \in 1..Len(rs) |-> SelectSeq(rs[r], LAMBDA al : retained(al, region))],
              LAMBDA row : Len(row) > 0)

\* self.rows.iter_mut().flatten(): the stack's items in row order, each with its place.
RECURSIVE flatten(_, _)
flatten(rs, r) ==
    IF r > Len(rs) THEN <<>>
    ELSE [c \in 1..Len(rs[r]) |->
             [id |-> rs[r][c].id, start |-> rs[r][c].start, end |-> rs[r][c].end,
              r |-> r, c |-> c]] \o flatten(rs, r + 1)

\* stack_items after sort_by_key((start, id)): references into the rows.
stack_items_of(rs) == SortStable(flatten(rs, 1), "start")

\* *stack_items[i]: the alignment a reference points at now.
deref(rs, item) == rs[item.r][item.c]

\* The while loop of replace_duplicates: skip the stack items that start before `start`.
RECURSIVE advance_stack_idx(_, _, _, _)
advance_stack_idx(rs, stack_items, stack_idx, start) ==
    IF stack_idx < Len(stack_items) /\ deref(rs, stack_items[stack_idx + 1]).start < start
    THEN advance_stack_idx(rs, stack_items, stack_idx + 1, start)
    ELSE stack_idx

\* The condition under which replace_duplicates overwrites a stack item.
is_duplicate(rs, stack_items, stack_idx, alignment) ==
    /\ stack_idx # Len(stack_items)
    /\ alignment.id = deref(rs, stack_items[stack_idx + 1]).id

\* The for loop of replace_duplicates over alignments[k..]; stack_idx is 0-based.
RECURSIVE replace_loop(_, _, _, _, _, _)
replace_loop(rs, stack_items, alignments, k, stack_idx, updated_alignments) ==
    IF k > Len(alignments)
    THEN [rows |-> rs, novel |-> updated_alignments, err |-> FALSE]
    ELSE LET alignment == alignments[k]
             idx == advance_stack_idx(rs, stack_items, stack_idx, alignment.start)
         IN IF is_duplicate(rs, stack_items, idx, alignment)
            THEN LET item == stack_items[idx + 1]
                 IN replace_loop([rs EXCEPT ![item.r][item.c] = alignment],
                                 stack_items, alignments, k + 1, idx, updated_alignments)
            ELSE IF push_fails(updated_alignments, alignment)
                 THEN [rows |-> rs, novel |-> updated_alignments, err |-> TRUE]
                 ELSE replace_loop(rs, stack_items, alignments, k + 1, idx,
                                   Append(updated_alignments, alignment))

\* AlignmentStack::replace_duplicates
replace_duplicates(rs, alignments) ==
    replace_loop(rs, stack_items_of(rs), alignments, 1, 0, <<>>)

\* The inner loop of extend_stack_right: pop_after(min_start) until None.
RECURSIVE fill_row_right(_, _, _)
fill_row_right(row, new_alignments, min_start) ==
    LET i == search_after(new_alignments, min_start)
    IN IF i = None THEN [row |-> row, list |-> new_alignments]
       ELSE LET next_alignment == new_alignments[i + 1]
            IN fill_row_right(Append(row, next_alignment), RemoveAt(new_alignments, i),
                              next_alignment.end + PADDING)

\* The outer loop of extend_stack_right from row row_idx (0-based) on.
RECURSIVE extend_right_loop(_, _, _)
extend_right_loop(rs, new_alignments, row_idx) ==
    IF row_idx < Len(rs)
    THEN LET row == rs[row_idx + 1]
             min_start == IF Len(row) > 0 THEN row[Len(row)].end + PADDING ELSE 0
             f == fill_row_right(row, new_alignments, min_start)
         IN extend_right_loop([rs EXCEPT ![row_idx + 1] = f.row], f.list, row_idx + 1)
    ELSE [rows |-> rs, list |-> new_alignments]

\* extend_stack_right with its row loop starting one row late.
extend_stack_right_from_second_row(rs, new_alignments) ==
    extend_right_loop(rs, new_alignments, 1)

\* AlignmentStack::extend_stack_right
extend_stack_right(rs, new_alignments) == extend_right_loop(rs, new_alignments, 0)

\* The inner loop of extend_stack_left: pop_before(max_end) until None.
RECURSIVE fill_row_left(_, _, _)
fill_row_left(row, new_alignments, max_end) ==
    LET i == search_before(new_alignments, max_end)
    IN IF i = None THEN [row |-> row, list |-> new_alignments]
       ELSE LET next_alignment == new_alignments[i + 1]
            IN fill_row_left(<<next_alignment>> \o row, RemoveAt(new_alignments, i),
                             saturating_sub(next_alignment.start, PADDING))

\* The outer loop of extend_stack_left from row row_idx (0-based) on. Reading the first
\* element of an empty row panics.
RECURSIVE extend_left_loop(_, _, _)
extend_left_loop(rs, new_alignments, row_idx) ==
    IF new_alignments = <<>> THEN [rows |-> rs, panic |-> FALSE]
    ELSE IF Len(rs) <= row_idx
    THEN LET f == fill_row_left(<<>>, new_alignments, u64_MAX)
         IN extend_left_loop(Append(rs, f.row), f.list, row_idx + 1)
    ELSE IF rs[row_idx + 1] = <<>> THEN [rows |-> rs, panic |-> TRUE]
    ELSE LET max_end == saturating_sub(rs[row_idx + 1][1].start, PADDING)
             f == fill_row_left(rs[row_idx + 1], new_alignments, max_end)
         IN extend_left_loop([rs EXCEPT ![row_idx + 1] = f.row], f.list, row_idx + 1)

\* AlignmentStack::extend_stack_left
extend_stack_left(rs, end_sorted) == extend_left_loop(rs, end_sorted, 0)

\* AlignmentStack::extend_stack
extend_stack(rs, new_alignments) ==
    LET right == extend_stack_right(rs, new_alignments)
    IN extend_stack_left(right.rows, sort_by_end(right.list))

\* An update that stacks the retained and the incoming alignments afresh.
update_restacked(rs, alignments, updated_region) ==
    LET kept == flatten(trim(rs, updated_region), 1)
        all == [i \in 1..Len(kept) |->
                   [id |-> kept[i].id, start |-> kept[i].start, end |-> kept[i].end]]
               \o alignments
        ext == extend_stack(<<>>, from_vec(all))
    IN [rows |-> ext.rows, ret |-> IF ext.panic THEN "panic" ELSE "ok"]

\* AlignmentStack::update on rows rs: the rows it leaves and how it ends.
update(rs, alignments, updated_region) ==
    LET trimmed == trim(rs, updated_region)
        rep == replace_duplicates(trimmed, from_vec(alignments))
        ext == extend_stack(rep.rows, rep.novel)
    IN IF rep.err THEN [rows |-> rep.rows, ret |-> "err"]
       ELSE [rows |-> ext.rows, ret |-> IF ext.panic THEN "panic" ELSE "ok"]

\* The regions a caller can pass: GenomicRegion::new succeeded.
Regions == {Region(n, s, e) : n \in SeqNames, s \in 0..MaxPos, e \in 0..MaxPos} \cap
           {r \in [seq_name : SeqNames, start : 0..MaxPos, end : 0..MaxPos] :
              ValidInterval(r.start, r.end)}

\* The alignments a caller can pass (their interval is a GenomicInterval).
Alignments == {a \in [id : 1..MaxId, start : 0..MaxPos, end : 0..MaxPos] :
                 ValidInterval(a.start, a.end)}

\* The Vec<T> arguments of update.
AlignmentLists == UNION {[1..n -> Alignments] : n \in 0..MaxIn}

\* AlignmentStack::new(buffered_region)
StackNew(region) ==
    /\ rows = <<>>
    /\ buffered_region = region
    /\ op = "new"
    /\ incoming = <<>>
    /\ prev_rows = <<>>
    /\ calls = 0
    /\ ret = "ok"

\* stack.update(alignments, &updated_region)
Update(alignments, updated_region) ==
    /\ \E res \in {update(rows, alignments, updated_region)} :
          /\ rows' = res.rows
          /\ ret' = res.ret
    /\ buffered_region' = updated_region
    /\ op' = "update"
    /\ incoming' = from_vec(alignments)
    /\ prev_rows' = rows
    /\ calls' = calls + 1

\* stack.clear(&updated_region)
Clear(updated_region) ==
    /\ rows' = <<>>
    /\ buffered_region' = updated_region
    /\ op' = "clear"
    /\ incoming' = <<>>
    /\ prev_rows' = rows
    /\ calls' = calls + 1
    /\ ret' = "ok"

\* Idle values of the variables a specification does not use.
NoSplit == [present |-> FALSE]
NoGrid == [present |-> FALSE]

StackIdle ==
    /\ rows = <<>> /\ buffered_region = Region("X", 0, 0) /\ op = "idle"
    /\ incoming = <<>> /\ prev_rows = <<>>
    /\ calls = 0 /\ ret = "ok"
SplitIdle == split = NoSplit /\ split_ret = "ok" /\ split_op = "idle"
GridIdle == grid = NoGrid
ConcIdle == conc = [present |-> FALSE]
ListIdle == search_list = [present |-> FALSE]
IntervalIdle == interval = [present |-> FALSE]
DiffIdle == diff = [present |-> FALSE]
PairIdle == pairing = [present |-> FALSE]
SyncIdle == sync = [present |-> FALSE]

StackInit ==
    /\ StackNew(Region("X", 0, MaxPos))
    /\ SplitIdle /\ GridIdle /\ ConcIdle /\ ListIdle /\ IntervalIdle /\ DiffIdle /\ PairIdle /\ SyncIdle

\* The stack takes calls while the call budget lasts and no call has failed.
StackLive == calls < MaxCalls /\ ret = "ok"

StackUpdate ==
    /\ StackLive
    /\ \E a \in AlignmentLists, r \in Regions : Update(a, r)
    /\ UNCHANGED <<split_vars, grid_vars, conc_vars, list_vars, interval_vars, diff_vars, pair_vars, sync_vars>>

StackClear ==
    /\ StackLive
    /\ \E r \in Regions : Clear(r)
    /\ UNCHANGED <<split_vars, grid_vars, conc_vars, list_vars, interval_vars, diff_vars, pair_vars, sync_vars>>

StackNext == StackUpdate \/ StackClear

SpecStack == StackInit /\ [][StackNext]_vars

(***************************************************************************)
(* Properties of the alignment stack (SpecStack).                          *)
(***************************************************************************)
\* The alignments of rows rs, in row order.
Items(rs) == flatten(rs, 1)

\* No id occurs twice in the list / in the rows.
DistinctIds(list) == \A i, j \in 1..Len(list) : i # j => list[i].id # list[j].id
NoIdTwice(rs) == DistinctIds(Items(rs))

InSeq(x, list) == \E i \in 1..Len(list) : list[i] = x

\* What the last update worked on, recomputed from the state before it.
Trimmed == trim(prev_rows, buffered_region)
Replaced == replace_duplicates(Trimmed, incoming)
AfterRight == extend_stack_right(Replaced.rows, Replaced.novel)

\* The last call was a completed update.
Updated == op = "update" /\ ret = "ok"

\* C1 (as claimed): in every state reached by update and clear calls, any two
\* consecutive alignments a, b of a row satisfy b.start >= a.end + 1.
C1_PaddedNonOverlap ==
    \A r \in 1..Len(rows) : \A c \in 1..(Len(rows[r]) - 1) :
        rows[r][c + 1].start >= rows[r][c].end + PADDING

\* C2 (as claimed): after an update whose incoming alignments have pairwise
\* distinct ids (on a stack holding no id twice), every incoming alignment whose
\* id is the id of a cached alignment that survived the trim replaced it and was
\* not added as a new alignment, and no id occurs twice in the stack.
C2_DuplicatesReplaced ==
    (Updated /\ DistinctIds(incoming) /\ NoIdTwice(prev_rows)) =>
        /\ \A k \in 1..Len(incoming) :
              (\E i \in 1..Len(Items(Trimmed)) : Items(Trimmed)[i].id = incoming[k].id)
                  => ~InSeq(incoming[k], Replaced.novel)
        /\ NoIdTwice(rows)

\* The cached rows after the trim with every id-matched entry replaced by the
\* incoming record of the same id.
Reconciled ==
    [r \in 1..Len(Trimmed) |->
        [c \in 1..Len(Trimmed[r]) |->
            IF \E k \in 1..Len(incoming) : incoming[k].id = Trimmed[r][c].id
            THEN incoming[CHOOSE k \in 1..Len(incoming) : incoming[k].id = Trimmed[r][c].id]
            ELSE Trimmed[r][c]]]

\* block occurs in row as a run of consecutive elements.
IsBlockOf(block, row) ==
    \E off \in 0..(Len(row) - Len(block)) : SubSeq(row, off + 1, off + Len(block)) = block

\* An incoming alignment re-ingested with a changed interval: a cached alignment
\* that survived the trim has its id and another interval.
Reingested(al) ==
    \E i \in 1..Len(Items(Trimmed)) :
        /\ Items(Trimmed)[i].id = al.id
        /\ <<Items(Trimmed)[i].start, Items(Trimmed)[i].end>> # <<al.start, al.end>>

\* C3 (as claimed): after an update (distinct incoming ids, no id twice in the
\* cache), a re-ingested alignment with a changed interval stands where the old
\* record stood, it is in the stack once (no new row or place for it), and the
\* cached entries keep their rows and their order.
C3_ReplacedInPlace ==
    (Updated /\ DistinctIds(incoming) /\ NoIdTwice(prev_rows)) =>
        /\ Len(rows) >= Len(Trimmed)
        /\ \A r \in 1..Len(Trimmed) : IsBlockOf(Reconciled[r], rows[r])
        /\ \A k \in 1..Len(incoming) :
              Reingested(incoming[k]) =>
                  Cardinality({i \in 1..Len(Items(rows)) :
                                  Items(rows)[i].id = incoming[k].id}) = 1

\* The half-open intervals of regions a and b share a position.
Intersects(a, b) == Max(a.start, b.start) < Min(a.end, b.end)
\* Region b is disjoint from region a: another contig, or no shared position.
DisjointRegions(a, b) == a.seq_name # b.seq_name \/ ~Intersects(a, b)
\* Every alignment of rows rs lies inside the interval of region a.
AllInside(rs, a) ==
    \A i \in 1..Len(Items(rs)) : a.start <= Items(rs)[i].start /\ Items(rs)[i].end <= a.end

\* C4 (as claimed): update([], B) on a stack whose alignments all lie inside its
\* region A, with B disjoint from A (both of positive length), leaves zero rows.
C4_TrimDisjoint ==
    [][(/\ op' = "update" /\ incoming' = <<>>
        /\ RegionLen(buffered_region) > 0 /\ RegionLen(buffered_region') > 0
        /\ AllInside(rows, buffered_region)
        /\ DisjointRegions(buffered_region, buffered_region'))
            => rows' = <<>>]_vars

\* x can be put in row with a gap of at least 1bp to every alignment of the row.
FitsRow(x, row) ==
    \A i \in 1..Len(row) :
        row[i].end + PADDING <= x.start \/ x.end + PADDING <= row[i].start

\* Number of alignments the last update put on the left of row r, and the place of
\* the first one it put on its right (rows past the cached ones are all new).
Prepended(r) == IF r <= Len(AfterRight.rows) THEN Len(rows[r]) - Len(AfterRight.rows[r])
                ELSE Len(rows[r])
FirstAppended(r) == IF r <= Len(AfterRight.rows)
                    THEN Prepended(r) + Len(Replaced.rows[r]) + 1
                    ELSE Len(rows[r]) + 1

\* C5 (as claimed): after an update every newly added alignment sits in the first
\* row where it fits: it fits in no earlier row of the final layout.
C5_FirstFit ==
    Updated =>
        \A r \in 1..Len(rows) : \A c \in 1..Len(rows[r]) :
            (c <= Prepended(r) \/ c >= FirstAppended(r)) =>
                \A k \in 1..(r - 1) : ~FitsRow(rows[r][c], rows[k])

\* x can be appended after the last / put before the first alignment of row.
CanAppend(x, row) == row[Len(row)].end + PADDING <= x.start
CanPrepend(x, row) == x.end + PADDING <= row[1].start

\* C5 (amended): every newly added alignment is placed at an end of its row and is
\* first-fit for that end: one appended on the right of row r can be appended to no
\* earlier row; one put on the left of row r (or in a new row) can be put on the left
\* of no earlier row and appended to no cached row.
C5_FirstFitAtEnds ==
    Updated =>
        \A r \in 1..Len(rows) : \A c \in 1..Len(rows[r]) :
            /\ c >= FirstAppended(r) =>
                  \A k \in 1..(r - 1) : ~CanAppend(rows[r][c], rows[k])
            /\ c <= Prepended(r) =>
                  /\ \A k \in 1..(r - 1) : ~CanPrepend(rows[r][c], rows[k])
                  /\ \A k \in 1..Len(AfterRight.rows) : ~CanAppend(rows[r][c], rows[k])

\* C5 witness: on a stack holding no id twice, an update opened a new row below the
\* cached rows for an alignment that could extend none of them.
C5_Witness ==
    /\ Updated /\ calls = 2
    /\ NoIdTwice(prev_rows) /\ NoIdTwice(rows)
    /\ Len(Trimmed) >= 1
    /\ Len(rows) > Len(Trimmed)
    /\ Prepended(Len(rows)) = Len(rows[Len(rows)])

(***************************************************************************)
(* interface/split.rs : Split                                              *)
(***************************************************************************)
BUFFER_SIZE == 1
REFRESH_FRACTION == 2

\* ReferenceSequence::get_seq_length for the contigs of the reference.
get_seq_length(seq_name) == IF seq_name = "X" THEN LenX ELSE LenY

\* GenomicRegion::expand: the lower end stops at 0, so the interval stays valid.
expand(region, by) ==
    [region EXCEPT !.start = saturating_sub(region.start, by), !.end = region.end + by]

\* A get_buffered_region that does not clip the end to the contig length.
get_buffered_region_unclipped(focused_region, seq_length) ==
    expand(focused_region, BUFFER_SIZE * RegionLen(focused_region))

\* get_buffered_region: the clip assigns interval.end without re-validating.
get_buffered_region(focused_region, seq_length) ==
    LET expanded == expand(focused_region, BUFFER_SIZE * RegionLen(focused_region))
    IN IF expanded.end > seq_length THEN [expanded EXCEPT !.end = seq_length] ELSE expanded

\* get_refresh_bound_region whose margin is the whole focused length.
get_refresh_bound_region_undivided(focused_region, seq_length) ==
    LET expanded == expand(focused_region, RegionLen(focused_region) * BUFFER_SIZE)
    IN IF expanded.end > seq_length THEN [expanded EXCEPT !.end = seq_length] ELSE expanded

\* get_refresh_bound_region
get_refresh_bound_region(focused_region, seq_length) ==
    LET expanded == expand(focused_region,
                           (RegionLen(focused_region) * BUFFER_SIZE) \div REFRESH_FRACTION)
    IN IF expanded.end > seq_length THEN [expanded EXCEPT !.end = seq_length] ELSE expanded

\* FastaReader::read succeeds: the indexed reader (rust-bio) rejects an interval with
\* start > end or with end past the end of the contig.
read_ok(region) ==
    region.start <= region.end /\ region.end <= get_seq_length(region.seq_name)

\* Option<SequenceView>: None, or Some(view) of the bases of the region that was read.
NoSequence == <<>>
SomeSequence(region) == <<region>>

\* The Split struct (id and reader left out).
SplitOf(focused_region, buffered, refresh_bound, max_render_window, buffered_sequence) ==
    [present |-> TRUE,
     focused_region |-> focused_region,
     buffered_region |-> buffered,
     refresh_bound_region |-> refresh_bound,
     max_render_window |-> max_render_window,
     buffered_sequence |-> buffered_sequence]

\* Split::new: [ok, split]. The focused region itself is read when it is small enough.
Split_new(focused_region, max_render_window, seq_length) ==
    LET small == RegionLen(focused_region) <= max_render_window
    IN [ok |-> small => read_ok(focused_region),
        split |-> SplitOf(focused_region,
                          get_buffered_region(focused_region, seq_length),
                          get_refresh_bound_region(focused_region, seq_length),
                          max_render_window,
                          IF small THEN SomeSequence(focused_region) ELSE NoSequence)]

\* Split::check_bounds with its comparisons against the refresh bound made inclusive.
check_bounds_inclusive(s, region) ==
    IF RegionLen(region) > s.max_render_window THEN "OutsideRenderRange"
    ELSE IF \/ region.seq_name # s.buffered_region.seq_name
            \/ region.start < s.buffered_region.start
            \/ region.end > s.buffered_region.end
            \/ RegionLen(s.buffered_region) > s.max_render_window
         THEN "OutsideBuffered"
    ELSE IF \/ region.start <= s.refresh_bound_region.start
            \/ region.end >= s.refresh_bound_region.end
         THEN "OutsideRefreshBound"
    ELSE "WithinRefreshBound"

\* Split::check_bounds without the comparison of the contigs.
check_bounds_any_contig(s, region) ==
    IF RegionLen(region) > s.max_render_window THEN "OutsideRenderRange"
    ELSE IF \/ region.start < s.buffered_region.start
            \/ region.end > s.buffered_region.end
            \/ RegionLen(s.buffered_region) > s.max_render_window
         THEN "OutsideBuffered"
    ELSE IF \/ region.start < s.refresh_bound_region.start
            \/ region.end > s.refresh_bound_region.end
         THEN "OutsideRefreshBound"
    ELSE "WithinRefreshBound"

\* Split::check_bounds
check_bounds(s, region) ==
    IF RegionLen(region) > s.max_render_window THEN "OutsideRenderRange"
    ELSE IF \/ region.seq_name # s.buffered_region.seq_name
            \/ region.start < s.buffered_region.start
            \/ region.end > s.buffered_region.end
            \/ RegionLen(s.buffered_region) > s.max_render_window
         THEN "OutsideBuffered"
    ELSE IF \/ region.start < s.refresh_bound_region.start
            \/ region.end > s.refresh_bound_region.end
         THEN "OutsideRefreshBound"
    ELSE "WithinRefreshBound"

\* A set_focused_region that assigns the regions before it reads the sequence.
set_focused_region_assign_first(s, focused_region, seq_length) ==
    LET buffered == get_buffered_region(focused_region, seq_length)
        refresh_bound == get_refresh_bound_region(focused_region, seq_length)
        reads == check_bounds(s, focused_region) # "OutsideRenderRange"
    IN [ok |-> ~reads \/ read_ok(buffered),
        split |-> SplitOf(focused_region, buffered, refresh_bound, s.max_render_window,
                          IF ~reads THEN NoSequence
                          ELSE IF read_ok(buffered) THEN SomeSequence(buffered)
                          ELSE s.buffered_sequence)]

\* Split::set_focused_region: [ok, split]; a failed read returns before any field is set.
set_focused_region(s, focused_region, seq_length) ==
    LET buffered == get_buffered_region(focused_region, seq_length)
        refresh_bound == get_refresh_bound_region(focused_region, seq_length)
        reads == check_bounds(s, focused_region) # "OutsideRenderRange"
    IN IF reads /\ ~read_ok(buffered) THEN [ok |-> FALSE, split |-> s]
       ELSE [ok |-> TRUE,
             split |-> SplitOf(focused_region, buffered, refresh_bound, s.max_render_window,
                               IF reads THEN SomeSequence(buffered) ELSE NoSequence)]

\* A set_max_render_window that only stores the window.
set_max_render_window_only(s, max_render_window) ==
    [ok |-> TRUE, split |-> [s EXCEPT !.max_render_window = max_render_window]]

\* Split::set_max_render_window: [ok, split]
set_max_render_window(s, max_render_window) ==
    IF s.buffered_sequence # NoSequence
    THEN [ok |-> TRUE,
          split |-> [s EXCEPT !.max_render_window = max_render_window,
                              !.buffered_sequence =
                                  IF RegionLen(s.focused_region) > max_render_window
                                  THEN NoSequence ELSE @]]
    ELSE IF RegionLen(s.focused_region) <= max_render_window
    THEN IF read_ok(s.buffered_region)
         THEN [ok |-> TRUE,
               split |-> [s EXCEPT !.max_render_window = max_render_window,
                                   !.buffered_sequence = SomeSequence(s.buffered_region)]]
         ELSE [ok |-> FALSE, split |-> s]
    ELSE [ok |-> TRUE, split |-> [s EXCEPT !.max_render_window = max_render_window]]

\* The focused regions and render windows a caller can pass.
SplitRegions == {r \in [seq_name : SeqNames, start : 0..MaxSplitPos, end : 0..MaxSplitPos] :
                   ValidInterval(r.start, r.end)}
Windows == 0..MaxWindow

\* Result<()> of a Split call.
ResultOf(ok) == IF ok THEN "ok" ELSE "err"

\* A Split constructed by Split::new(reference_path, focused_region, max_render_window, seq_length).
SplitInit ==
    /\ \E focused_region \in SplitRegions, max_render_window \in Windows :
          \E res \in {Split_new(focused_region, max_render_window,
                                get_seq_length(focused_region.seq_name))} :
              /\ res.ok
              /\ split = res.split
    /\ split_ret = "ok"
    /\ split_op = "new"
    /\ StackIdle /\ GridIdle /\ ConcIdle /\ ListIdle /\ IntervalIdle /\ DiffIdle /\ PairIdle /\ SyncIdle

\* split.set_focused_region(focused_region, seq_length)
SplitSetFocusedRegion ==
    /\ \E focused_region \in SplitRegions :
          \E res \in {set_focused_region(split, focused_region,
                                         get_seq_length(focused_region.seq_name))} :
              /\ split' = res.split
              /\ split_ret' = ResultOf(res.ok)
    /\ split_op' = "set_focused_region"
    /\ UNCHANGED <<stack_vars, grid_vars, conc_vars, list_vars, interval_vars, diff_vars, pair_vars, sync_vars>>

\* split.set_max_render_window(max_render_window)
SplitSetMaxRenderWindow ==
    /\ \E max_render_window \in Windows :
          \E res \in {set_max_render_window(split, max_render_window)} :
              /\ split' = res.split
              /\ split_ret' = ResultOf(res.ok)
    /\ split_op' = "set_max_render_window"
    /\ UNCHANGED <<stack_vars, grid_vars, conc_vars, list_vars, interval_vars, diff_vars, pair_vars, sync_vars>>

SplitNext == SplitSetFocusedRegion \/ SplitSetMaxRenderWindow

SpecSplit == SplitInit /\ [][SplitNext]_vars

(***************************************************************************)
(* interface/split_grid.rs : SplitGrid                                     *)
(***************************************************************************)
\* The alignments of the file of a track, after pairing: contig, id and interval. The
\* base differences of a read do not enter the layout and are left out; positions of a
\* read outside the buffered sequence are skipped by the diff, so the read never fails.
FileReads ==
    << [seq_name |-> "X", id |-> 1, start |-> 0, end |-> 2],
       [seq_name |-> "X", id |-> 2, start |-> 1, end |-> 3],
       [seq_name |-> "X", id |-> 3, start |-> 3, end |-> 5],
       [seq_name |-> "Y", id |-> 4, start |-> 0, end |-> 1] >>

\* BamReader::read: fetch returns the records of the contig that overlap [start, end).
bam_read(region) ==
    LET hits == SelectSeq(FileReads, LAMBDA rd : /\ rd.seq_name = region.seq_name
                                                  /\ rd.start < region.end
                                                  /\ rd.end > region.start)
    IN [i \in 1..Len(hits) |-> Aln(hits[i].id, hits[i].start, hits[i].end)]

\* The AlignmentStack of a StackReader, and how the call on it ended.
StackOf(rs, region) == [rows |-> rs, buffered_region |-> region]

\* StackReader::read_stacked
read_stacked(stack, region) ==
    LET res == update(stack.rows, bam_read(region), region)
    IN [stack |-> StackOf(res.rows, region), ok |-> res.ret = "ok"]

\* StackReader::clear_stack
clear_stack(stack, region) == [stack |-> StackOf(<<>>, region), ok |-> TRUE]

\* The match of update_alignments / update_split_alignments on the buffered sequence.
refresh_stack(s, stack) ==
    IF s.buffered_sequence # NoSequence
    THEN read_stacked(stack, s.buffered_region)
    ELSE clear_stack(stack, s.buffered_region)

\* StackReader::new: a stack that holds nothing yet.
new_stack_reader == StackOf(<<>>, Region("X", 0, 0))

\* An emitted event with the split and the track of its payload (0: none).
Ev(event, split_id, track_id) == [event |-> event, split_id |-> split_id, track_id |-> track_id]

\* ReferenceSequence.default_focused_region: the whole first contig.
default_focused_region == Region("X", 0, LenX)

\* The record of the call that is starting on grid g.
Called(g, name, split_id) ==
    [g EXCEPT !.op = name, !.split_id = split_id, !.events = <<>>, !.ret = "ok",
              !.bound_state = "none", !.read_tracks = {}, !.calls = g.calls + 1,
              !.payloads = <<>>]

\* SplitGrid::new(max_render_window): [ok, grid]
SplitGrid_new(max_render_window) ==
    LET res == Split_new(default_focused_region, max_render_window, default_focused_region.end)
    IN [ok |-> res.ok,
        grid |-> [present |-> TRUE,
                  splits |-> <<res.split>>,
                  tracks |-> 0,
                  focused_split |-> 1,
                  stacks |-> <<>>,
                  max_render_window |-> max_render_window,
                  op |-> "new", split_id |-> 1, events |-> <<>>, ret |-> "ok",
                  bound_state |-> "none", read_tracks |-> {}, calls |-> 0,
                  announced |-> <<<<>>>>, payloads |-> <<>>]]

\* SplitGrid::update_split_alignments: the stack of every track for the split is
\* re-read (or cleared when the split has no buffered sequence).
update_split_alignments(g, split_id) ==
    LET s == g.splits[split_id]
        refreshed == [t \in 1..g.tracks |-> refresh_stack(s, g.stacks[t][split_id])]
    IN [stacks |-> [t \in 1..g.tracks |-> [g.stacks[t] EXCEPT ![split_id] = refreshed[t].stack]],
        ok |-> \A t \in 1..g.tracks : refreshed[t].ok]

\* SplitGrid::add_track: the track gets a stack reader per split and each is filled.
add_track(g) ==
    LET track_id == g.tracks + 1
        filled == [i \in 1..Len(g.splits) |-> refresh_stack(g.splits[i], new_stack_reader)]
        ok == \A i \in 1..Len(g.splits) : filled[i].ok
        added == [Called(g, "add_track", 0) EXCEPT
                     !.tracks = track_id,
                     !.stacks = Append(g.stacks, [i \in 1..Len(g.splits) |-> filled[i].stack]),
                     !.read_tracks = {track_id}]
    IN IF ok THEN [added EXCEPT !.events = <<Ev("TrackAdded", 0, track_id)>>]
       ELSE [added EXCEPT !.ret = "err"]

\* SplitGrid::get_default_focused_region
get_default_focused_region(g) ==
    IF Len(g.splits) > 0 THEN g.splits[g.focused_split].focused_region
    ELSE default_focused_region

\* SplitGrid::add_split; focused_region is <<>> (None) or <<region>> (Some).
add_split(g, focused_region) ==
    LET region == IF focused_region = <<>> THEN get_default_focused_region(g)
                  ELSE focused_region[1]
        res == Split_new(region, g.max_render_window, get_seq_length(region.seq_name))
        split_id == Len(g.splits) + 1
        filled == [t \in 1..g.tracks |-> refresh_stack(res.split, new_stack_reader)]
        ok == \A t \in 1..g.tracks : filled[t].ok
        added == [Called(g, "add_split", split_id) EXCEPT
                     !.focused_split = split_id,
                     !.splits = Append(g.splits, res.split),
                     !.announced = Append(g.announced, <<>>),
                     !.stacks = [t \in 1..g.tracks |-> Append(g.stacks[t], filled[t].stack)],
                     !.read_tracks = 1..g.tracks]
    IN IF ~res.ok THEN [Called(g, "add_split", 0) EXCEPT !.ret = "err"]
       ELSE IF ~ok THEN [added EXCEPT !.ret = "err"]
       ELSE [added EXCEPT !.events = <<Ev("SplitAdded", split_id, 0),
                                       Ev("FocusedSplitUpdated", split_id, 0)>>]

\* Split::focused_sequence succeeds: the focused region lies inside the buffered sequence.
focused_sequence_ok(s) ==
    s.buffered_sequence = NoSequence
    \/ LET view == s.buffered_sequence[1]
       IN /\ RegionLen(s.focused_region) <= RegionLen(view)
          /\ s.focused_region.start >= view.start
          /\ s.focused_region.end <= view.end

\* The events update_focused_region emits before it moves the split.
region_events(bound_state, split_id, same_len) ==
    <<Ev("FocusedRegionUpdated", split_id, 0)>> \o
    (IF bound_state \in {"WithinRefreshBound", "OutsideRefreshBound"}
     THEN <<Ev(IF same_len THEN "RegionPanned" ELSE "RegionZoomed", split_id, 0)>>
     ELSE IF bound_state = "OutsideBuffered" THEN <<Ev("RegionBuffering", split_id, 0)>>
     ELSE <<>>)

\* The event it emits for the sequence once the split has moved.
sequence_events(bound_state, split_id) ==
    IF bound_state \in {"OutsideBuffered", "OutsideRenderRange"}
    THEN <<Ev("FocusedSequenceUpdated", split_id, 0)>>
    ELSE IF bound_state = "OutsideRefreshBound"
    THEN <<Ev("FocusedSequenceUpdateQueued", split_id, 0)>>
    ELSE <<>>

\* A closing loop that queues the alignments of a region outside the buffered one.
alignments_events_queued(bound_state, split_id, tracks) ==
    IF bound_state = "OutsideRenderRange"
    THEN [t \in 1..tracks |-> Ev("AlignmentsUpdated", split_id, t)]
    ELSE IF bound_state \in {"OutsideRefreshBound", "OutsideBuffered"}
    THEN [t \in 1..tracks |-> Ev("AlignmentsUpdateQueued", split_id, t)]
    ELSE <<>>

\* The events of its closing loop over the tracks.
alignments_events(bound_state, split_id, tracks) ==
    IF bound_state \in {"OutsideBuffered", "OutsideRenderRange"}
    THEN [t \in 1..tracks |-> Ev("AlignmentsUpdated", split_id, t)]
    ELSE IF bound_state = "OutsideRefreshBound"
    THEN [t \in 1..tracks |-> Ev("AlignmentsUpdateQueued", split_id, t)]
    ELSE <<>>

\* The AlignmentsUpdatedPayload of each event of the closing loop: the stack is the one
\* the stack reader holds when the event is emitted.
alignments_payloads(bound_state, stacks, split_id, genomic_region) ==
    IF bound_state = "WithinRefreshBound" THEN <<>>
    ELSE [t \in 1..Len(stacks) |->
             [split_id |-> split_id, track_id |-> t, focused_region |-> genomic_region,
              alignments |-> stacks[t][split_id]]]

\* SplitGrid::update_focused_region; `announced` keeps, per split, the region of the last
\* FocusedRegionUpdated payload, `payloads` the payloads of the alignments events.
update_focused_region(g, split_id, genomic_region) ==
    LET s == g.splits[split_id]
        called == Called(g, "update_focused_region", split_id)
    IN IF s.focused_region = genomic_region THEN called
       ELSE
       LET prev_region_len == RegionLen(s.focused_region)
           seq_length == get_seq_length(genomic_region.seq_name)
           bound_state == check_bounds(s, genomic_region)
           emitted == region_events(bound_state, split_id,
                                    RegionLen(genomic_region) = prev_region_len)
           set == set_focused_region(s, genomic_region, seq_length)
           classified == [called EXCEPT !.bound_state = bound_state, !.events = emitted,
                                        !.announced[split_id] = <<genomic_region>>]
       IN IF ~set.ok THEN [classified EXCEPT !.ret = "err"]
          ELSE
          LET moved == [classified EXCEPT !.splits[split_id] = set.split]
              updated == update_split_alignments(moved, split_id)
          IN IF ~focused_sequence_ok(set.split) THEN [moved EXCEPT !.ret = "err"]
             ELSE IF ~updated.ok
             THEN [moved EXCEPT !.events = emitted \o sequence_events(bound_state, split_id),
                                !.stacks = updated.stacks,
                                !.read_tracks = 1..g.tracks,
                                !.ret = "err"]
             ELSE [moved EXCEPT !.events = emitted \o sequence_events(bound_state, split_id)
                                            \o alignments_events(bound_state, split_id, g.tracks),
                                !.payloads = alignments_payloads(bound_state, updated.stacks,
                                                                 split_id, genomic_region),
                                !.stacks = updated.stacks,
                                !.read_tracks = 1..g.tracks]

\* The loop of SplitGrid::set_max_render_window over the splits in the order `order`
\* (the iteration order of the DashMap), stopping at the first error.
RECURSIVE set_window_loop(_, _, _, _)
set_window_loop(splits, order, k, max_render_window) ==
    IF k > Len(order) THEN [splits |-> splits, ok |-> TRUE]
    ELSE LET res == set_max_render_window(splits[order[k]], max_render_window)
         IN IF ~res.ok THEN [splits |-> splits, ok |-> FALSE]
            ELSE set_window_loop([splits EXCEPT ![order[k]] = res.split], order, k + 1,
                                 max_render_window)

\* SplitGrid::set_max_render_window
grid_set_max_render_window(g, order, max_render_window) ==
    LET res == set_window_loop(g.splits, order, 1, max_render_window)
    IN [Called(g, "set_max_render_window", 0) EXCEPT
           !.max_render_window = max_render_window,
           !.splits = res.splits,
           !.ret = ResultOf(res.ok)]

\* The regions and render windows a caller can pass to the grid.
GridRegions == {r \in SplitRegions : r.end <= MaxGridPos}
GridWindows == {MaxWindow \div 3, MaxWindow}

\* The orders in which a DashMap of n entries can be iterated.
Orders(n) == {o \in [1..n -> 1..n] : \A i, j \in 1..n : i # j => o[i] # o[j]}

\* The grid built by SplitGrid::new(max_render_window).
GridInit ==
    /\ \E max_render_window \in GridWindows :
          \E res \in {SplitGrid_new(max_render_window)} :
              /\ res.ok
              /\ grid = res.grid
    /\ StackIdle /\ SplitIdle /\ ConcIdle /\ ListIdle /\ IntervalIdle /\ DiffIdle /\ PairIdle /\ SyncIdle

\* The grid takes calls while the call budget lasts.
GridLive == grid.calls < MaxGridCalls

\* split_grid.add_track(event_emitter, file_path)
GridAddTrack ==
    /\ GridLive
    /\ grid.tracks < MaxTracks
    /\ grid' = add_track(grid)
    /\ UNCHANGED <<stack_vars, split_vars, conc_vars, list_vars, interval_vars, diff_vars, pair_vars, sync_vars>>

\* split_grid.add_split(event_emitter, focused_region)
GridAddSplit ==
    /\ GridLive
    /\ Len(grid.splits) < MaxSplits
    /\ \E focused_region \in {<<>>} \cup {<<r>> : r \in GridRegions} :
          grid' = add_split(grid, focused_region)
    /\ UNCHANGED <<stack_vars, split_vars, conc_vars, list_vars, interval_vars, diff_vars, pair_vars, sync_vars>>

\* split_grid.update_focused_region(event_emitter, split_id, genomic_region)
GridUpdateFocusedRegion ==
    /\ GridLive
    /\ \E split_id \in 1..Len(grid.splits), genomic_region \in GridRegions :
          grid' = update_focused_region(grid, split_id, genomic_region)
    /\ UNCHANGED <<stack_vars, split_vars, conc_vars, list_vars, interval_vars, diff_vars, pair_vars, sync_vars>>

\* split_grid.set_max_render_window(max_render_window)
GridSetMaxRenderWindow ==
    /\ GridLive
    /\ \E max_render_window \in GridWindows, order \in Orders(Len(grid.splits)) :
          grid' = grid_set_max_render_window(grid, order, max_render_window)
    /\ UNCHANGED <<stack_vars, split_vars, conc_vars, list_vars, interval_vars, diff_vars, pair_vars, sync_vars>>

GridNext ==
    \/ GridAddTrack
    \/ GridAddSplit
    \/ GridUpdateFocusedRegion
    \/ GridSetMaxRenderWindow

SpecGrid == GridInit /\ [][GridNext]_vars

(***************************************************************************)
(* Properties of the split (SpecSplit).                                    *)
(***************************************************************************)
\* The last call set the focused region of the split and succeeded.
Focused == split_ret = "ok" /\ split_op \in {"new", "set_focused_region"}

\* Length of the focused region and of its contig.
FocusedLen == RegionLen(split.focused_region)
ContigLen == get_seq_length(split.focused_region.seq_name)

\* C7 (as claimed): after Split::new or a successful set_focused_region with a focused
\* region F no longer than max_render_window, check_bounds(F) is WithinRefreshBound.
C7_FocusedWithinRefreshBound ==
    (Focused /\ FocusedLen <= split.max_render_window) =>
        check_bounds(split, split.focused_region) = "WithinRefreshBound"

\* C7 (amended): ... provided also that F ends inside its contig and that the buffered
\* region around F is no longer than max_render_window.
C7_FocusedWithinRefreshBoundIfBufferedFits ==
    (/\ Focused /\ FocusedLen <= split.max_render_window
     /\ split.focused_region.end <= ContigLen
     /\ RegionLen(split.buffered_region) <= split.max_render_window) =>
        check_bounds(split, split.focused_region) = "WithinRefreshBound"

\* C7 witness: set_focused_region succeeded with a focused region of positive length
\* away from position 0 whose buffered region fits max_render_window.
C7_Witness ==
    /\ split_ret = "ok" /\ split_op = "set_focused_region"
    /\ FocusedLen > 0 /\ FocusedLen <= split.max_render_window
    /\ split.focused_region.start > 0
    /\ split.focused_region.end <= ContigLen
    /\ RegionLen(split.buffered_region) <= split.max_render_window
    /\ RegionLen(split.buffered_region) > FocusedLen

\* The candidate leaves the contig or an edge of the buffered region of the split.
LeavesBuffered(candidate) ==
    \/ candidate.seq_name # split.buffered_region.seq_name
    \/ candidate.start < split.buffered_region.start
    \/ candidate.end > split.buffered_region.end

\* C8 (as claimed): for every candidate no longer than max_render_window, check_bounds
\* is OutsideBuffered exactly when the candidate is on another contig than the buffered
\* region or extends past one of its edges.
C8_OutsideBufferedIff ==
    \A candidate \in SplitRegions :
        RegionLen(candidate) <= split.max_render_window =>
            (check_bounds(split, candidate) = "OutsideBuffered" <=> LeavesBuffered(candidate))

\* C8 (amended): ... or when the buffered region itself is longer than
\* max_render_window; nothing else of the split enters.
C8_OutsideBufferedIffOrTooLong ==
    \A candidate \in SplitRegions :
        RegionLen(candidate) <= split.max_render_window =>
            (check_bounds(split, candidate) = "OutsideBuffered" <=>
                (\/ LeavesBuffered(candidate)
                 \/ RegionLen(split.buffered_region) > split.max_render_window))

\* C8 witness: for a split whose buffered region fits max_render_window, one candidate on
\* the other contig is OutsideBuffered and one candidate inside the buffered region is not.
C8_Witness ==
    /\ RegionLen(split.buffered_region) <= split.max_render_window
    /\ \E candidate \in SplitRegions :
          /\ candidate.seq_name # split.buffered_region.seq_name
          /\ check_bounds(split, candidate) = "OutsideBuffered"
    /\ \E candidate \in SplitRegions :
          /\ ~LeavesBuffered(candidate)
          /\ check_bounds(split, candidate) \in {"OutsideRefreshBound", "WithinRefreshBound"}

\* C9 (as claimed): the buffered region of a focused region F of length L on a contig of
\* length S is on F's contig, starts at max(0, F.start - L), ends at min(F.end + L, S) and
\* is a valid interval: start <= end <= S.
C9_BufferedRegionValid ==
    LET F == split.focused_region
        b == split.buffered_region
    IN /\ b.seq_name = F.seq_name
       /\ b.start = Max(0, F.start - FocusedLen)
       /\ b.end = Min(F.end + FocusedLen, ContigLen)
       /\ b.start <= b.end
       /\ b.end <= ContigLen

\* A region with `by` taken off both ends.
Contracted(region, by) == [region EXCEPT !.start = region.start + by, !.end = region.end - by]

\* The margin of the refresh bound: L * BUFFER_SIZE / REFRESH_FRACTION.
RefreshMargin == (FocusedLen * BUFFER_SIZE) \div REFRESH_FRACTION

AlignmentsEvents(g) ==
    SelectSeq(g.events,
              LAMBDA e : e.event \in {"AlignmentsUpdated", "AlignmentsUpdateQueued"})

\* C6 (as claimed): when update_focused_region classifies the new focused region as
\* WithinRefreshBound, no stack of the split is re-read or modified (rows and buffered
\* region of every (track, split) stack are unchanged) and no AlignmentsUpdated or
\* AlignmentsUpdateQueued event is emitted; in the other three bound states the pipeline
\* runs for every track.
C6_WithinRefreshBoundNoOp ==
    [][(grid'.op = "update_focused_region" /\ grid'.ret = "ok" /\ grid'.bound_state # "none")
        => IF grid'.bound_state = "WithinRefreshBound"
           THEN /\ grid'.read_tracks = {}
                /\ \A t \in 1..grid.tracks :
                      grid'.stacks[t][grid'.split_id] = grid.stacks[t][grid'.split_id]
                /\ AlignmentsEvents(grid') = <<>>
           ELSE /\ grid'.read_tracks = 1..grid.tracks
                /\ Len(AlignmentsEvents(grid')) = grid.tracks]_vars

(***************************************************************************)
(* interface/split_grid.rs : SplitGrid under concurrent calls (SpecConc)   *)
(*                                                                         *)
(* SplitGrid keeps its maps in DashMaps and its fields in RwLocks and every *)
(* method takes &self, so calls run concurrently.  Each thread below makes *)
(* one call; an action is one access to the shared maps or locks.  Only    *)
(* what the calls share is kept: which tracks, splits and stack readers    *)
(* are registered, the max_render_window of the grid and of each split,    *)
(* and who holds the write lock of each stack reader.  An iteration over a *)
(* DashMap is taken as a snapshot of the map at the start of the loop.     *)
(***************************************************************************)
\* The track and the split registered before the concurrent calls start, and the ones
\* registered by add_track and add_split.
OldTrack == "track_1"
NewTrack == "track_2"
OldSplit == "split_1"
NewSplit == "split_2"
ConcTracks == {OldTrack, NewTrack}
ConcSplits == {OldSplit, NewSplit}

\* The threads: one call each.  update_focused_region is called by MaxUpdateThreads threads.
UpdateNames == <<"update_1", "update_2", "update_3">>
UpdateThreads == {UpdateNames[i] : i \in 1..Min(MaxUpdateThreads, Len(UpdateNames))}
AddThreads == {"add_track", "add_split"}
Threads == AddThreads \cup UpdateThreads \cup {"set_window"}

\* The key of a stack reader in SplitGrid.alignments.
ReaderKey(track_id, split_id) == <<track_id, split_id>>

\* SplitGrid::get_stack_reader returns Err when the key is not in `alignments`.
get_stack_reader_fails(c, key) == key \notin c.alignments

\* SplitGrid::get_split returns Err when the id is not in `splits`.
get_split_fails(c, split_id) == split_id \notin c.splits

\* RwLock::write on a stack reader proceeds without looking at the other holders.
stack_reader_write_unguarded(c, key) == TRUE

\* RwLock::write on a stack reader: proceeds when no thread holds the lock.
stack_reader_write(c, key) == \A th \in Threads : key \notin c.held[th]

\* The shared state after SplitGrid::new(max_render_window) and one completed add_track.
ConcGrid(max_render_window) ==
    [present |-> TRUE,
     tracks |-> {OldTrack},
     splits |-> {OldSplit},
     split_window |-> [s \in ConcSplits |-> IF s = OldSplit THEN max_render_window ELSE None],
     alignments |-> {ReaderKey(OldTrack, OldSplit)},
     max_render_window |-> max_render_window,
     focused_split |-> OldSplit,
     pc |-> [th \in Threads |-> "idle"],
     arg |-> [th \in Threads |-> None],
     ids |-> [th \in Threads |-> {}],
     todo |-> [th \in Threads |-> {}],
     held |-> [th \in Threads |-> {}],
     err |-> [th \in Threads |-> "none"]]

\* ---- add_track ----
\* self.tracks.insert(track.id(), RwLock::new(track))
add_track_insert(c) ==
    [c EXCEPT !.tracks = @ \cup {NewTrack}, !.pc["add_track"] = "split_ids"]

\* init_track_alignments: let split_ids = self.get_split_ids()
add_track_split_ids(c) ==
    [c EXCEPT !.ids["add_track"] = c.splits,
              !.todo["add_track"] = c.splits,
              !.pc["add_track"] = IF c.splits = {} THEN "update" ELSE "add_readers"]

\* init_track_alignments: self.add_stack_reader(&file_path, &split_id, track_id) for one split
add_track_add_stack_reader(c, split_id) ==
    LET rest == c.todo["add_track"] \ {split_id}
    IN [c EXCEPT !.alignments = @ \cup {ReaderKey(NewTrack, split_id)},
                 !.todo["add_track"] =
                     IF rest = {} THEN {ReaderKey(NewTrack, s) : s \in c.ids["add_track"]}
                     ELSE rest,
                 !.pc["add_track"] = IF rest = {} THEN "update" ELSE "add_readers"]

\* ---- add_split ----
\* Split::new(path, focused_region, *self.max_render_window.read(), seq_length)
add_split_new(c) ==
    [c EXCEPT !.arg["add_split"] = c.max_render_window, !.pc["add_split"] = "focus"]

\* *self.focused_split.write() = split.id.clone()
add_split_focus(c) ==
    [c EXCEPT !.focused_split = NewSplit, !.pc["add_split"] = "insert"]

\* self.splits.insert(split.id, RwLock::new(split))
add_split_insert(c) ==
    [c EXCEPT !.splits = @ \cup {NewSplit},
              !.split_window[NewSplit] = c.arg["add_split"],
              !.pc["add_split"] = "tracks_info"]

\* let tracks_info = self.tracks.iter()...collect()
add_split_tracks_info(c) ==
    [c EXCEPT !.ids["add_split"] = c.tracks,
              !.todo["add_split"] = c.tracks,
              !.pc["add_split"] = IF c.tracks = {} THEN "update" ELSE "add_readers"]

\* self.add_stack_reader(file_path, &split_id, track_id) for one track
add_split_add_stack_reader(c, track_id) ==
    LET rest == c.todo["add_split"] \ {track_id}
    IN [c EXCEPT !.alignments = @ \cup {ReaderKey(track_id, NewSplit)},
                 !.todo["add_split"] =
                     IF rest = {} THEN {ReaderKey(t, NewSplit) : t \in c.ids["add_split"]}
                     ELSE rest,
                 !.pc["add_split"] = IF rest = {} THEN "update" ELSE "add_readers"]

\* ---- the pipeline run on one stack reader ----
\* A parallel worker of thread th looks up the stack reader of `key`; without it the
\* call fails (the workers not yet started are dropped).
reader_missing(c, th, key) ==
    [c EXCEPT !.err[th] = "missing_stack_reader", !.todo[th] = c.held[th]]

\* stack_reader.write(): the worker holds the write lock while read_stacked / clear_stack
\* fetches from the file and rebuilds the stack.
reader_locked(c, th, key) == [c EXCEPT !.held[th] = @ \cup {key}]

\* The write guard is dropped at the end of the statement.
reader_unlocked(c, th, key) ==
    [c EXCEPT !.held[th] = @ \ {key}, !.todo[th] = @ \ {key}]

\* SplitGrid::update_alignments, up to the write lock.
update_alignments_begin(c, th, key) ==
    IF get_stack_reader_fails(c, key) \/ get_split_fails(c, key[2])
    THEN reader_missing(c, th, key)
    ELSE reader_locked(c, th, key)

\* One worker of update_split_alignments, up to the write lock.
update_split_alignments_begin(c, th, key) ==
    IF get_stack_reader_fails(c, key)
    THEN reader_missing(c, th, key)
    ELSE reader_locked(c, th, key)

\* The thread's workers are all finished: add_track / add_split emit their events and return.
add_return(c, th) == [c EXCEPT !.pc[th] = "done"]

\* ---- update_focused_region ----
\* get_split, the notification of the frontend and set_focused_region under the write
\* lock of the split.
update_focused_region_begin(c, th, split_id) ==
    IF get_split_fails(c, split_id)
    THEN [c EXCEPT !.err[th] = "split_not_found", !.arg[th] = split_id, !.pc[th] = "done"]
    ELSE [c EXCEPT !.arg[th] = split_id, !.pc[th] = "iterate"]

\* update_split_alignments: self.tracks.par_iter()
update_split_alignments_iter(c, th) ==
    [c EXCEPT !.todo[th] = {ReaderKey(t, c.arg[th]) : t \in c.tracks},
              !.pc[th] = "update"]

\* After update_split_alignments: Err is returned, or every track's stack reader is
\* looked up again for the AlignmentsUpdated events.
update_focused_region_emit(c, th) ==
    IF c.err[th] # "none" THEN [c EXCEPT !.pc[th] = "done"]
    ELSE IF \E t \in c.tracks : get_stack_reader_fails(c, ReaderKey(t, c.arg[th]))
    THEN [c EXCEPT !.err[th] = "missing_stack_reader", !.pc[th] = "done"]
    ELSE [c EXCEPT !.pc[th] = "done"]

\* ---- set_max_render_window ----
\* *self.max_render_window.write() = max_render_window
set_window_write(c, max_render_window) ==
    [c EXCEPT !.max_render_window = max_render_window,
              !.arg["set_window"] = max_render_window,
              !.pc["set_window"] = "iterate"]

\* for entry in self.splits.iter()
set_window_iter(c) ==
    [c EXCEPT !.todo["set_window"] = c.splits, !.pc["set_window"] = "splits"]

\* entry.value().write().set_max_render_window(max_render_window)
set_window_split(c, split_id) ==
    [c EXCEPT !.split_window[split_id] = c.arg["set_window"],
              !.todo["set_window"] = @ \ {split_id}]

\* Ok(())
set_window_return(c) == [c EXCEPT !.pc["set_window"] = "done"]

\* ---- the specification ----
ConcRest == UNCHANGED <<stack_vars, split_vars, grid_vars, list_vars, interval_vars, diff_vars, pair_vars, sync_vars>>

ConcInit ==
    /\ \E max_render_window \in GridWindows : conc = ConcGrid(max_render_window)
    /\ StackIdle /\ SplitIdle /\ GridIdle /\ ListIdle /\ IntervalIdle /\ DiffIdle /\ PairIdle /\ SyncIdle

ConcAddTrackInsert ==
    /\ conc.pc["add_track"] = "idle"
    /\ conc' = add_track_insert(conc)
    /\ ConcRest

ConcAddTrackSplitIds ==
    /\ conc.pc["add_track"] = "split_ids"
    /\ conc' = add_track_split_ids(conc)
    /\ ConcRest

ConcAddTrackAddStackReader ==
    /\ conc.pc["add_track"] = "add_readers"
    /\ \E split_id \in conc.todo["add_track"] : conc' = add_track_add_stack_reader(conc, split_id)
    /\ ConcRest

ConcAddSplitNew ==
    /\ conc.pc["add_split"] = "idle"
    /\ conc' = add_split_new(conc)
    /\ ConcRest

ConcAddSplitFocus ==
    /\ conc.pc["add_split"] = "focus"
    /\ conc' = add_split_focus(conc)
    /\ ConcRest

ConcAddSplitInsert ==
    /\ conc.pc["add_split"] = "insert"
    /\ conc' = add_split_insert(conc)
    /\ ConcRest

ConcAddSplitTracksInfo ==
    /\ conc.pc["add_split"] = "tracks_info"
    /\ conc' = add_split_tracks_info(conc)
    /\ ConcRest

ConcAddSplitAddStackReader ==
    /\ conc.pc["add_split"] = "add_readers"
    /\ \E track_id \in conc.todo["add_split"] : conc' = add_split_add_stack_reader(conc, track_id)
    /\ ConcRest

\* A worker of add_track / add_split enters update_alignments.
ConcUpdateAlignmentsBegin ==
    /\ \E th \in AddThreads :
          /\ conc.pc[th] = "update"
          /\ \E key \in conc.todo[th] \ conc.held[th] :
                /\ get_stack_reader_fails(conc, key) \/ get_split_fails(conc, key[2])
                      \/ stack_reader_write(conc, key)
                /\ conc' = update_alignments_begin(conc, th, key)
    /\ ConcRest

\* A worker of add_track / add_split leaves update_alignments.
ConcUpdateAlignmentsEnd ==
    /\ \E th \in AddThreads :
          \E key \in conc.held[th] : conc' = reader_unlocked(conc, th, key)
    /\ ConcRest

ConcAddReturn ==
    /\ \E th \in AddThreads :
          /\ conc.pc[th] = "update" /\ conc.todo[th] = {}
          /\ conc' = add_return(conc, th)
    /\ ConcRest

ConcUpdateFocusedRegionBegin ==
    /\ \E th \in UpdateThreads :
          /\ conc.pc[th] = "idle"
          /\ \E split_id \in ConcSplits : conc' = update_focused_region_begin(conc, th, split_id)
    /\ ConcRest

ConcUpdateSplitAlignmentsIter ==
    /\ \E th \in UpdateThreads :
          /\ conc.pc[th] = "iterate"
          /\ conc' = update_split_alignments_iter(conc, th)
    /\ ConcRest

\* A worker of update_split_alignments looks up and locks its stack reader.
ConcUpdateSplitAlignmentsBegin ==
    /\ \E th \in UpdateThreads :
          /\ conc.pc[th] = "update"
          /\ \E key \in conc.todo[th] \ conc.held[th] :
                /\ get_stack_reader_fails(conc, key) \/ stack_reader_write(conc, key)
                /\ conc' = update_split_alignments_begin(conc, th, key)
    /\ ConcRest

\* A worker of update_split_alignments is done with its stack reader.
ConcUpdateSplitAlignmentsEnd ==
    /\ \E th \in UpdateThreads :
          \E key \in conc.held[th] : conc' = reader_unlocked(conc, th, key)
    /\ ConcRest

ConcUpdateFocusedRegionEmit ==
    /\ \E th \in UpdateThreads :
          /\ conc.pc[th] = "update" /\ conc.todo[th] = {}
          /\ conc' = update_focused_region_emit(conc, th)
    /\ ConcRest

ConcSetWindowWrite ==
    /\ conc.pc["set_window"] = "idle"
    /\ \E max_render_window \in GridWindows : conc' = set_window_write(conc, max_render_window)
    /\ ConcRest

ConcSetWindowIter ==
    /\ conc.pc["set_window"] = "iterate"
    /\ conc' = set_window_iter(conc)
    /\ ConcRest

ConcSetWindowSplit ==
    /\ conc.pc["set_window"] = "splits"
    /\ \E split_id \in conc.todo["set_window"] : conc' = set_window_split(conc, split_id)
    /\ ConcRest

ConcSetWindowReturn ==
    /\ conc.pc["set_window"] = "splits" /\ conc.todo["set_window"] = {}
    /\ conc' = set_window_return(conc)
    /\ ConcRest

ConcNext ==
    \/ ConcAddTrackInsert
    \/ ConcAddTrackSplitIds
    \/ ConcAddTrackAddStackReader
    \/ ConcAddSplitNew
    \/ ConcAddSplitFocus
    \/ ConcAddSplitInsert
    \/ ConcAddSplitTracksInfo
    \/ ConcAddSplitAddStackReader
    \/ ConcUpdateAlignmentsBegin
    \/ ConcUpdateAlignmentsEnd
    \/ ConcAddReturn
    \/ ConcUpdateFocusedRegionBegin
    \/ ConcUpdateSplitAlignmentsIter
    \/ ConcUpdateSplitAlignmentsBegin
    \/ ConcUpdateSplitAlignmentsEnd
    \/ ConcUpdateFocusedRegionEmit
    \/ ConcSetWindowWrite
    \/ ConcSetWindowIter
    \/ ConcSetWindowSplit
    \/ ConcSetWindowReturn

SpecConc == ConcInit /\ [][ConcNext]_vars

(***************************************************************************)
(* Properties of the split grid under concurrent calls (SpecConc).         *)
(***************************************************************************)
\* C11 (as claimed): registration of a track or split never races with an in-flight
\* update: update_focused_region never fails with a missing-stack-reader error because
\* add_track or add_split is running concurrently.
C11_NoMissingStackReader ==
    conc.present =>
        \A th \in UpdateThreads : conc.err[th] # "missing_stack_reader"

\* The threads that are inside a fetch-and-iterate or a stack mutation on a stack reader.
Inside(key) == {th \in Threads : key \in conc.held[th]}

\* C12: at most one thread at a time is inside BamReader.read or a stack mutation on a
\* given (track, split) stack reader.
C12_OneThreadPerStackReader ==
    conc.present =>
        \A t \in ConcTracks, s \in ConcSplits : Cardinality(Inside(ReaderKey(t, s))) <= 1

\* C12 witness: a thread is inside a stack reader while a worker of another thread has
\* reached the same stack reader and waits for it.
C12_Witness ==
    /\ conc.present
    /\ \E th \in Threads, other \in Threads :
          \E key \in conc.held[th] :
              /\ other # th
              /\ conc.pc[other] = "update"
              /\ key \in conc.todo[other] \ conc.held[other]
              /\ ~get_stack_reader_fails(conc, key)

\* C13 (as claimed): once set_max_render_window(m) has returned, every split of the grid
\* has max_render_window = m, also a split whose add_split call overlapped the call.
C13_WindowPropagated ==
    (conc.present /\ conc.pc["set_window"] = "done") =>
        \A s \in conc.splits : conc.split_window[s] = conc.arg["set_window"]

(***************************************************************************)
(* alignments/alignment.rs : one AlignmentSearchList under calls (SpecList) *)
(***************************************************************************)
\* From<Vec<T>> for AlignmentSearchList<T, SortEnd>
from_vec_end(item) == SortStable(item, "end")

\* AlignmentSearchList<T, SortEnd>::sort_by_start
sort_by_start(inner) == SortStable(inner, "start")

\* AlignmentSearchList<T, SortEnd>::push fails on a value below the last (end, id).
push_end_fails(inner, value) ==
    /\ inner # <<>>
    /\ LET last == inner[Len(inner)]
       IN value.end < last.end \/ (value.end = last.end /\ value.id < last.id)

\* Option<T>: None is <<>>, Some(a) is <<a>>.
Some(a) == <<a>>

\* The search list with the record of the call that was just made on it.
ListOf(inner, kind, op_name, value, at, index, popped, result, prev, n) ==
    [present |-> TRUE, inner |-> inner, kind |-> kind, op |-> op_name, value |-> value,
     at |-> at, index |-> index, popped |-> popped, ret |-> result, prev |-> prev,
     calls |-> n]

\* Vec<T>::into() for either sort state.
list_from(item, kind) ==
    ListOf(IF kind = "start" THEN from_vec(item) ELSE from_vec_end(item),
           kind, "from", <<>>, None, None, <<>>, "ok", item, 0)

\* push(value) of either sort state.
list_push(l, value) ==
    LET fails == IF l.kind = "start" THEN push_fails(l.inner, value)
                 ELSE push_end_fails(l.inner, value)
    IN ListOf(IF fails THEN l.inner ELSE Append(l.inner, value),
              l.kind, "push", Some(value), None, None, <<>>,
              IF fails THEN "err" ELSE "ok", l.inner, l.calls + 1)

\* self.search_*(at).map(|i| self.inner.remove(i))
list_pop(l, op_name, at, i) ==
    IF i = Panic
    THEN ListOf(l.inner, l.kind, op_name, <<>>, at, i, <<>>, "panic", l.inner, l.calls + 1)
    ELSE IF i = None
    THEN ListOf(l.inner, l.kind, op_name, <<>>, at, i, <<>>, "ok", l.inner, l.calls + 1)
    ELSE ListOf(RemoveAt(l.inner, i), l.kind, op_name, <<>>, at, i, Some(l.inner[i + 1]),
                "ok", l.inner, l.calls + 1)

\* AlignmentSearchList<T, SortStart>::pop_after
pop_after(l, min_start) == list_pop(l, "pop_after", min_start, search_after(l.inner, min_start))

\* AlignmentSearchList<T, SortEnd>::pop_before
pop_before(l, max_end) == list_pop(l, "pop_before", max_end, search_before(l.inner, max_end))

\* search_after / search_before called on their own.
list_search(l, op_name, at, i) ==
    ListOf(l.inner, l.kind, op_name, <<>>, at, i, <<>>,
           IF i = Panic THEN "panic" ELSE "ok", l.inner, l.calls + 1)

\* sort_by_end / sort_by_start consume the list and give the one of the other sort state.
list_sort(l) ==
    IF l.kind = "start"
    THEN ListOf(sort_by_end(l.inner), "end", "sort_by_end", <<>>, None, None, <<>>, "ok",
                l.inner, l.calls + 1)
    ELSE ListOf(sort_by_start(l.inner), "start", "sort_by_start", <<>>, None, None, <<>>, "ok",
                l.inner, l.calls + 1)

\* The Vec<T> a list is made from: any order, ids may repeat.
ListVecs == UNION {[1..n -> Alignments] : n \in 0..MaxListLen}

\* The coordinates passed to the searches.
ListCoordinates == 0..(MaxPos + 1)

ListRest == UNCHANGED <<stack_vars, split_vars, grid_vars, conc_vars, interval_vars, diff_vars, pair_vars, sync_vars>>

ListInit ==
    /\ \E item \in ListVecs, kind \in {"start", "end"} : search_list = list_from(item, kind)
    /\ StackIdle /\ SplitIdle /\ GridIdle /\ ConcIdle /\ IntervalIdle /\ DiffIdle /\ PairIdle /\ SyncIdle

\* The list takes calls while the call budget lasts and no call has panicked.
ListLive == search_list.calls < MaxListCalls /\ search_list.ret # "panic"

ListPush ==
    /\ ListLive
    /\ \E value \in Alignments : search_list' = list_push(search_list, value)
    /\ ListRest

ListPopAfter ==
    /\ ListLive /\ search_list.kind = "start"
    /\ \E min_start \in ListCoordinates : search_list' = pop_after(search_list, min_start)
    /\ ListRest

ListPopBefore ==
    /\ ListLive /\ search_list.kind = "end"
    /\ \E max_end \in ListCoordinates : search_list' = pop_before(search_list, max_end)
    /\ ListRest

ListSearchAfter ==
    /\ ListLive /\ search_list.kind = "start"
    /\ \E min_start \in ListCoordinates :
          search_list' = list_search(search_list, "search_after", min_start,
                                     search_after(search_list.inner, min_start))
    /\ ListRest

ListSearchBefore ==
    /\ ListLive /\ search_list.kind = "end"
    /\ \E max_end \in ListCoordinates :
          search_list' = list_search(search_list, "search_before", max_end,
                                     search_before(search_list.inner, max_end))
    /\ ListRest

ListSort ==
    /\ ListLive
    /\ search_list' = list_sort(search_list)
    /\ ListRest

ListNext ==
    \/ ListPush
    \/ ListPopAfter
    \/ ListPopBefore
    \/ ListSearchAfter
    \/ ListSearchBefore
    \/ ListSort

SpecList == ListInit /\ [][ListNext]_vars

(***************************************************************************)
(* Properties of the search list (SpecList).                               *)
(***************************************************************************)
\* The sequence is non-decreasing in the key of the sort state.
IsSorted(s, kind) == \A i \in 1..(Len(s) - 1) : KeyLeq(kind, s[i], s[i + 1])

\* C14: the list is sorted in every reachable state: after construction from any Vec and
\* after any sequence of successful or failed push, pop_after, pop_before, sort_by_end and
\* sort_by_start calls a start-sorted list is non-decreasing in (start, id) and an
\* end-sorted list is non-decreasing in (end, id).
C14_AlwaysSorted ==
    search_list.present => IsSorted(search_list.inner, search_list.kind)

\* C14 witness: a list built from a Vec that was not sorted, sorted by end and then
\* extended by a push.
C14_Witness ==
    /\ search_list.present
    /\ search_list.op = "push" /\ search_list.ret = "ok"
    /\ search_list.kind = "end"
    /\ Len(search_list.inner) >= 3
    /\ ~IsSorted(search_list.inner, "start")

\* The 0-based indices of the elements a search for `at` may return.
StartHits(s, at) == {i \in 0..(Len(s) - 1) : s[i + 1].start >= at}
EndHits(s, at) == {i \in 0..(Len(s) - 1) : s[i + 1].end <= at}

SetMin(S) == CHOOSE x \in S : \A y \in S : x <= y
SetMax(S) == CHOOSE x \in S : \A y \in S : x >= y

\* C15: search_after(min_start) returns the smallest index whose element has
\* start >= min_start, and None exactly when the list is empty or every start is below
\* min_start; it never indexes out of range.
C15_SearchAfterSmallest ==
    (search_list.present /\ search_list.op \in {"search_after", "pop_after"}) =>
        LET hits == StartHits(search_list.prev, search_list.at)
        IN /\ search_list.ret = "ok"
           /\ search_list.index = IF hits = {} THEN None ELSE SetMin(hits)

\* C15 witness: a search in a list of three or more elements, two of them with the start
\* that is asked for, answered with an index that is neither the first nor the last.
C15_Witness ==
    /\ search_list.present /\ search_list.op = "search_after"
    /\ Len(search_list.prev) >= 3
    /\ search_list.index > 0 /\ search_list.index < Len(search_list.prev) - 1
    /\ Cardinality({i \in StartHits(search_list.prev, search_list.at) :
                       search_list.prev[i + 1].start = search_list.at}) >= 2

\* C16: search_before(max_end) returns the largest index whose element has
\* end <= max_end, and None exactly when the list is empty or every end is above max_end;
\* the index never leaves the range of the list and mid - 1 never goes below 0.
C16_SearchBeforeLargest ==
    (search_list.present /\ search_list.op \in {"search_before", "pop_before"}) =>
        LET hits == EndHits(search_list.prev, search_list.at)
        IN /\ search_list.ret = "ok"
           /\ search_list.index = IF hits = {} THEN None ELSE SetMax(hits)

\* C16 witness: a search in a list of three or more elements that is answered with
\* index 0 although later elements exist.
C16_Witness ==
    /\ search_list.present /\ search_list.op = "search_before"
    /\ Len(search_list.prev) >= 3
    /\ search_list.index = 0
    /\ search_list.prev[2].end > search_list.at

\* C17: push(value) on a start-sorted list succeeds and appends value exactly when the
\* list is empty or (value.start, value.id) >= (last.start, last.id); otherwise it returns
\* the error and leaves the list unchanged.
C17_PushIffSorted ==
    (search_list.present /\ search_list.op = "push" /\ search_list.kind = "start") =>
        LET value == search_list.value[1]
            before == search_list.prev
            accepted == before = <<>> \/ StartKeyLeq(before[Len(before)], value)
        IN IF accepted
           THEN search_list.ret = "ok" /\ search_list.inner = Append(before, value)
           ELSE search_list.ret = "err" /\ search_list.inner = before

\* C17 witness: a push refused because of the id alone (same start as the last element,
\* smaller id) on a list of two or more elements.
C17_Witness ==
    /\ search_list.present /\ search_list.op = "push" /\ search_list.kind = "start"
    /\ search_list.ret = "err"
    /\ Len(search_list.prev) >= 2
    /\ search_list.value[1].start = search_list.prev[Len(search_list.prev)].start

(***************************************************************************)
(* bio_util/genomic_coordinates.rs : one GenomicInterval under calls       *)
(* (SpecInterval)                                                          *)
(***************************************************************************)
\* GenomicInterval { start, end }
Interval(start, end) == [start |-> start, end |-> end]

\* The number of values of a u64 (u64_MAX is the largest one of the model).
u64_SIZE == u64_MAX + 1

\* How `a - b` on u64 ends: with overflow checks (debug build) an underflow panics, without
\* them (release build) it wraps.  The result is <<"ok", value>> or <<"panic">>.
u64_sub(a, b, overflow_checks) ==
    IF a >= b THEN <<"ok", a - b>>
    ELSE IF overflow_checks THEN <<"panic">>
    ELSE <<"ok", a - b + u64_SIZE>>

\* How `a + b` on u64 ends.
u64_add(a, b, overflow_checks) ==
    IF a + b <= u64_MAX THEN <<"ok", a + b>>
    ELSE IF overflow_checks THEN <<"panic">>
    ELSE <<"ok", a + b - u64_SIZE>>

\* GenomicInterval::new: Result<Self>, <<"ok", interval>> or <<"err">>.
GenomicInterval_new(start, end) ==
    IF end < start THEN <<"err">> ELSE <<"ok", Interval(start, end)>>

\* GenomicInterval::contract: Self::new(self.start + by, self.end - by)
contract(self, by, overflow_checks) ==
    LET new_start == u64_add(self.start, by, overflow_checks)
        new_end == u64_sub(self.end, by, overflow_checks)
    IN IF new_start[1] = "panic" \/ new_end[1] = "panic" THEN <<"panic">>
       ELSE GenomicInterval_new(new_start[2], new_end[2])

\* GenomicInterval::overlaps
overlaps(self, other) == self.start <= other.end /\ self.end <= self.end

\* The interval with the record of the call that was just made on it.
IntervalOf(self, op_name, by, other, result, out, prev, n) ==
    [present |-> TRUE, self |-> self, op |-> op_name, by |-> by, other |-> other,
     ret |-> result, out |-> out, prev |-> prev, calls |-> n]

\* interval = interval.contract(by)?: the interval is replaced when the call succeeds.
interval_contract(iv, by, overflow_checks) ==
    LET res == contract(iv.self, by, overflow_checks)
    IN IF res[1] = "ok"
       THEN IntervalOf(res[2], "contract", by, <<>>, "ok", <<res[2]>>, iv.self, iv.calls + 1)
       ELSE IntervalOf(iv.self, "contract", by, <<>>, res[1], <<>>, iv.self, iv.calls + 1)

\* interval.overlaps(&other)
interval_overlaps(iv, other) ==
    IntervalOf(iv.self, "overlaps", None, <<other>>,
               IF overlaps(iv.self, other) THEN "true" ELSE "false", <<>>, iv.self,
               iv.calls + 1)

\* The intervals GenomicInterval::new accepts.
Intervals == {i \in [start : 0..MaxIntervalPos, end : 0..MaxIntervalPos] :
                GenomicInterval_new(i.start, i.end)[1] = "ok"}

IntervalRest == UNCHANGED <<stack_vars, split_vars, grid_vars, conc_vars, list_vars, diff_vars, pair_vars, sync_vars>>

IntervalInit ==
    /\ \E i \in Intervals :
          interval = IntervalOf(i, "new", None, <<>>, "ok", <<>>, i, 0)
    /\ StackIdle /\ SplitIdle /\ GridIdle /\ ConcIdle /\ ListIdle /\ DiffIdle /\ PairIdle /\ SyncIdle

\* The interval takes calls while the call budget lasts and no call has panicked.
IntervalLive == interval.calls < MaxIntervalCalls /\ interval.ret # "panic"

IntervalContract ==
    /\ IntervalLive
    /\ \E by \in 0..(MaxIntervalPos + 1), overflow_checks \in BOOLEAN :
          interval' = interval_contract(interval, by, overflow_checks)
    /\ IntervalRest

IntervalOverlaps ==
    /\ IntervalLive
    /\ \E other \in Intervals : interval' = interval_overlaps(interval, other)
    /\ IntervalRest

IntervalNext == IntervalContract \/ IntervalOverlaps

SpecInterval == IntervalInit /\ [][IntervalNext]_vars

(***************************************************************************)
(* Properties of the interval (SpecInterval).                              *)
(***************************************************************************)
\* C18 (as claimed): contract(by) returns an error, and never a panic or an interval
\* produced by wrapped u64 arithmetic, for every `by` for which the contracted interval
\* would be inverted (start + by > end - by), including by > end; whenever it succeeds the
\* result is [start + by, end - by] with start <= end.
C18_ContractErrWhenInverted ==
    (interval.present /\ interval.op = "contract") =>
        LET new_start == interval.prev.start + interval.by
            new_end == interval.prev.end - interval.by
        IN IF new_start > new_end
           THEN interval.ret = "err"
           ELSE /\ interval.ret = "ok"
                /\ interval.out = <<Interval(new_start, new_end)>>

\* C19 (as claimed): a.overlaps(b) is true exactly when a.start <= b.end and
\* b.start <= a.end; it is symmetric and false when b lies entirely to one side of a.
C19_OverlapsIffIntersect ==
    (interval.present /\ interval.op = "overlaps") =>
        LET a == interval.self
            b == interval.other[1]
        IN (interval.ret = "true") <=> (a.start <= b.end /\ b.start <= a.end)

(***************************************************************************)
(* file_formats/sam_bam/diff.rs : iter_sequence_diffs (SpecDiff)           *)
(***************************************************************************)
\* A CIGAR entry, e.g. Cigar::Match(len): kind is one of M = X I S D N H P.
Cigar(kind, len) == [kind |-> kind, len |-> len]

\* An item of IterAlignedPairsCigar: (Cigar, Option<usize>, Option<u64>).
Pair(entry, read_pos, ref_pos) == [cigar |-> entry, read_pos |-> read_pos, ref_pos |-> ref_pos]

\* IterAlignedPairsCigar::new(genome_pos, cigar); cigar_index is 0-based as in the code.
IterAlignedPairsCigar_new(genome_pos) ==
    [genome_pos |-> genome_pos, read_pos |-> 0, remaining_match_bp |-> 0,
     remaining_ins_bp |-> 0, remaining_del_bp |-> 0, cigar_index |-> 0]

\* Iterator::next of IterAlignedPairsCigar: the iterator afterwards and the item
\* (<<>> for None, <<pair>> for Some; the panic on Cigar::Pad is a last pair at Panic).
RECURSIVE pairs_next(_, _)
pairs_next(it, cigar) ==
    IF it.remaining_match_bp > 0
    THEN [it |-> [it EXCEPT !.remaining_match_bp = @ - 1, !.genome_pos = @ + 1,
                            !.read_pos = @ + 1],
          item |-> <<Pair(cigar[it.cigar_index], it.read_pos, it.genome_pos)>>]
    ELSE IF it.remaining_ins_bp > 0
    THEN [it |-> [it EXCEPT !.remaining_ins_bp = @ - 1, !.read_pos = @ + 1],
          item |-> <<Pair(cigar[it.cigar_index], it.read_pos, None)>>]
    ELSE IF it.remaining_del_bp > 0
    THEN [it |-> [it EXCEPT !.remaining_del_bp = @ - 1, !.genome_pos = @ + 1],
          item |-> <<Pair(cigar[it.cigar_index], None, it.genome_pos)>>]
    ELSE IF it.cigar_index < Len(cigar)
    THEN LET entry == cigar[it.cigar_index + 1]
         IN CASE entry.kind \in {"M", "=", "X"} ->
                    [it |-> [it EXCEPT !.genome_pos = @ + 1, !.read_pos = @ + 1,
                                       !.remaining_match_bp = entry.len - 1,
                                       !.cigar_index = @ + 1],
                     item |-> <<Pair(entry, it.read_pos, it.genome_pos)>>]
              [] entry.kind = "I" ->
                    [it |-> [it EXCEPT !.read_pos = @ + 1,
                                       !.remaining_ins_bp = entry.len - 1,
                                       !.cigar_index = @ + 1],
                     item |-> <<Pair(entry, it.read_pos, None)>>]
              [] entry.kind = "S" ->
                    [it |-> [it EXCEPT !.genome_pos = @ + 1, !.read_pos = @ + 1,
                                       !.remaining_ins_bp = entry.len - 1,
                                       !.cigar_index = @ + 1],
                     item |-> <<Pair(entry, it.read_pos, it.genome_pos)>>]
              [] entry.kind \in {"D", "N"} ->
                    [it |-> [it EXCEPT !.genome_pos = @ + 1,
                                       !.remaining_del_bp = entry.len - 1,
                                       !.cigar_index = @ + 1],
                     item |-> <<Pair(entry, None, it.genome_pos)>>]
              [] entry.kind = "H" ->
                    pairs_next([it EXCEPT !.cigar_index = @ + 1], cigar)
              [] OTHER -> [it |-> [it EXCEPT !.cigar_index = Len(cigar)],
                           item |-> <<Pair(entry, Panic, Panic)>>]
    ELSE [it |-> it, item |-> <<>>]

\* iter_aligned_pairs_cigar(record).collect()
RECURSIVE collect_pairs(_, _)
collect_pairs(it, cigar) ==
    LET step == pairs_next(it, cigar)
    IN IF step.item = <<>> THEN <<>>
       ELSE step.item \o collect_pairs(step.it, cigar)

\* SequenceView { sequence, offset }
SequenceView(sequence, offset) == [sequence |-> sequence, offset |-> offset]

\* SequenceView::contains
view_contains(refseq, pos) ==
    pos >= refseq.offset /\ pos - refseq.offset < Len(refseq.sequence)

\* Index<u64> for SequenceView
view_index(refseq, idx) == refseq.sequence[idx - refseq.offset + 1]

\* util::same_enum_variant on two Cigar values.
same_enum_variant(a, b) == a.kind = b.kind

\* A SequenceDiff; Del and RefSkip carry no sequence.
SequenceDiff(kind, start, end, sequence) ==
    [kind |-> kind, start |-> start, end |-> end, sequence |-> sequence]

\* (start, end).try_into()? of a diff: the diff when the interval is valid, an Err item
\* when it is not.
diff_of(kind, start, end, sequence) ==
    IF GenomicInterval_new(start, end)[1] = "ok"
    THEN <<SequenceDiff(kind, start, end, sequence)>>
    ELSE <<SequenceDiff("Err", start, end, <<>>)>>

\* The loop of collapse_diff: the index, the collected bases and the last reference
\* position when the loop is left.
RECURSIVE collapse_loop(_, _, _, _, _)
collapse_loop(d, idx, aligned_pair, sequence, current_ref_pos) ==
    LET kind == aligned_pair.cigar.kind
        has_read == aligned_pair.read_pos # None
        has_ref == aligned_pair.ref_pos # None
        taken == \/ (kind = "I" /\ has_read /\ ~has_ref)
                 \/ (kind \in {"D", "N"} /\ has_ref)
                 \/ (kind = "S" /\ has_read /\ has_ref)
        sequence_now == IF kind \in {"I", "S"}
                        THEN Append(sequence, d.record_sequence[aligned_pair.read_pos + 1])
                        ELSE sequence
        ref_pos_now == IF kind = "I" THEN current_ref_pos ELSE aligned_pair.ref_pos
        left == [idx |-> idx, sequence |-> sequence_now, current_ref_pos |-> ref_pos_now]
    IN IF ~taken
       THEN [idx |-> idx, sequence |-> sequence, current_ref_pos |-> current_ref_pos]
       ELSE IF idx + 1 >= Len(d.aligned_pairs) THEN left
       ELSE IF ~same_enum_variant(d.aligned_pairs[idx + 2].cigar, d.aligned_pairs[d.idx0 + 1].cigar)
       THEN left
       ELSE collapse_loop(d, idx + 1, d.aligned_pairs[idx + 2], sequence_now, ref_pos_now)

\* DiffAlignments::collapse_diff, called at aligned_pair_index idx: the index afterwards
\* and the diff.
collapse_diff(d, idx, current_diff_ref_start) ==
    LET initial == d.aligned_pairs[idx + 1]
        res == collapse_loop([d EXCEPT !.idx0 = idx], idx, initial, <<>>,
                             current_diff_ref_start)
        kind == initial.cigar.kind
    IN [idx |-> res.idx,
        diff |-> CASE kind = "I" ->
                        diff_of("Ins", current_diff_ref_start, res.current_ref_pos,
                                res.sequence)
                   [] kind = "S" ->
                        diff_of("SoftClip", current_diff_ref_start, res.current_ref_pos + 1,
                                res.sequence)
                   [] kind = "D" ->
                        diff_of("Del", current_diff_ref_start, res.current_ref_pos + 1, <<>>)
                   [] kind = "N" ->
                        diff_of("RefSkip", current_diff_ref_start, res.current_ref_pos + 1,
                                <<>>)
                   [] OTHER -> <<SequenceDiff("Panic", current_diff_ref_start,
                                               current_diff_ref_start, <<>>)>>]

\* DiffAlignments::handle_possible_mismatch: <<>> for Ok(None).
handle_possible_mismatch(d, read_pos, ref_pos) ==
    LET read_base == d.record_sequence[read_pos + 1]
        ref_base == view_index(d.refseq, ref_pos)
    IN IF read_base # ref_base
       THEN diff_of("Mismatch", ref_pos, ref_pos + 1, <<read_base>>)
       ELSE <<>>

\* Iterator::next of DiffAlignments from aligned_pair_index idx: the fields afterwards and
\* the item (<<>> for None).
RECURSIVE diff_next(_, _, _)
diff_next(d, idx, current_diff_ref_start) ==
    IF idx < Len(d.aligned_pairs)
    THEN LET aligned_pair == d.aligned_pairs[idx + 1]
             kind == aligned_pair.cigar.kind
         IN IF aligned_pair.ref_pos # None /\ ~view_contains(d.refseq, aligned_pair.ref_pos)
            THEN diff_next(d, idx + 1, current_diff_ref_start)
            ELSE LET start == IF aligned_pair.ref_pos # None THEN aligned_pair.ref_pos
                              ELSE current_diff_ref_start
                 IN IF kind \in {"I", "S", "D", "N"}
                    THEN LET res == collapse_diff(d, idx, start)
                         IN [idx |-> res.idx + 1, current_diff_ref_start |-> start,
                             item |-> res.diff]
                    ELSE IF /\ kind \in {"M", "X"}
                            /\ aligned_pair.read_pos # None /\ aligned_pair.ref_pos # None
                    THEN LET maybe_diff == handle_possible_mismatch(
                                               d, aligned_pair.read_pos, aligned_pair.ref_pos)
                         IN IF maybe_diff # <<>>
                            THEN [idx |-> idx + 1, current_diff_ref_start |-> start,
                                  item |-> maybe_diff]
                            ELSE diff_next(d, idx + 1, start)
                    ELSE diff_next(d, idx + 1, start)
    ELSE [idx |-> idx, current_diff_ref_start |-> current_diff_ref_start, item |-> <<>>]

\* DiffAlignments::new(record, refseq) for a record at `pos` with the given CIGAR and bases.
DiffAlignments_new(pos, cigar, record_sequence, refseq) ==
    [present |-> TRUE,
     refseq |-> refseq,
     current_diff_ref_start |-> pos,
     record_sequence |-> record_sequence,
     aligned_pair_index |-> 0,
     aligned_pairs |-> collect_pairs(IterAlignedPairsCigar_new(pos), cigar),
     idx0 |-> 0,
     pos |-> pos,
     cigar |-> cigar,
     out |-> <<>>,
     done |-> FALSE]

\* One call of next() by the consumer of iter_sequence_diffs; the items are kept in `out`.
iter_next(d) ==
    LET res == diff_next(d, d.aligned_pair_index, d.current_diff_ref_start)
    IN [d EXCEPT !.aligned_pair_index = res.idx,
                 !.current_diff_ref_start = res.current_diff_ref_start,
                 !.out = IF res.item = <<>> THEN @ ELSE @ \o res.item,
                 !.done = res.item = <<>>]

\* The bases of the model.
Bases == {"A", "C"}

\* The CIGAR strings of the model (no padding entries, no empty entries).
CigarEntries == {Cigar(k, n) : k \in {"M", "=", "X", "I", "S", "D", "N", "H"},
                               n \in 1..MaxCigarLen}
CigarStrings == UNION {[1..n -> CigarEntries] : n \in 1..MaxCigarOps}

\* The number of read bases a CIGAR string consumes.
RECURSIVE read_length(_)
read_length(cigar) ==
    IF cigar = <<>> THEN 0
    ELSE (IF cigar[1].kind \in {"M", "=", "X", "I", "S"} THEN cigar[1].len ELSE 0)
         + read_length(Tail(cigar))

\* The reference views of the model: MaxViewLen bases from offset 1.
SequenceViews == {SequenceView(sq, 1) : sq \in [1..MaxViewLen -> Bases]}

DiffRest == UNCHANGED <<stack_vars, split_vars, grid_vars, conc_vars, list_vars, interval_vars,
                        pair_vars, sync_vars>>

DiffInit ==
    /\ \E pos \in 0..MaxDiffPos, cigar \in CigarStrings, refseq \in SequenceViews :
          \E record_sequence \in [1..read_length(cigar) -> Bases] :
              diff = DiffAlignments_new(pos, cigar, record_sequence, refseq)
    /\ StackIdle /\ SplitIdle /\ GridIdle /\ ConcIdle /\ ListIdle /\ IntervalIdle /\ PairIdle /\ SyncIdle

DiffNext ==
    /\ ~diff.done
    /\ diff' = iter_next(diff)
    /\ DiffRest

SpecDiff == DiffInit /\ [][DiffNext]_vars

(***************************************************************************)
(* Properties of iter_sequence_diffs (SpecDiff).                           *)
(***************************************************************************)
\* The items emitted so far, as a set.
Emitted == {diff.out[i] : i \in 1..Len(diff.out)}

\* The aligned pairs under a Match, Equal or Diff operation whose reference position lies
\* inside the view.
AlignedInView ==
    {p \in {diff.aligned_pairs[i] : i \in 1..Len(diff.aligned_pairs)} :
        /\ p.cigar.kind \in {"M", "=", "X"}
        /\ view_contains(diff.refseq, p.ref_pos)}

\* C20 (as claimed): for every aligned base under a Match, Equal or Diff operation whose
\* reference position lies inside the view, a Mismatch of length 1 at that reference
\* position carrying the read base is emitted if and only if the read base differs from the
\* reference base.
C20_MismatchIffDiffers ==
    (diff.present /\ diff.done) =>
        \A p \in AlignedInView :
            LET read_base == diff.record_sequence[p.read_pos + 1]
                ref_base == view_index(diff.refseq, p.ref_pos)
            IN (SequenceDiff("Mismatch", p.ref_pos, p.ref_pos + 1, <<read_base>>) \in Emitted)
                   <=> (read_base # ref_base)

\* The CIGAR entries of the record, by index.
CigarIndices == 1..Len(diff.cigar)

\* The sum of the lengths of the entries before entry e whose kind is in `kinds`.
RECURSIVE offset_before(_, _)
offset_before(e, kinds) ==
    IF e <= 1 THEN 0
    ELSE (IF diff.cigar[e - 1].kind \in kinds THEN diff.cigar[e - 1].len ELSE 0)
         + offset_before(e - 1, kinds)

\* The read bases of the run of entry e.
run_bases(e) ==
    LET r == offset_before(e, {"M", "=", "X", "I", "S"})
    IN [k \in 1..diff.cigar[e].len |-> diff.record_sequence[r + k]]

\* How often an item was emitted.
times_emitted(item) == Cardinality({i \in 1..Len(diff.out) : diff.out[i] = item})

\* C21 (as claimed): a soft-clip run of n bases, counted as advancing the reference offset
\* by n like the aligned operations before it, yields exactly one SoftClip diff with
\* reference interval [p, p + n) and the n clipped read bases, and no other SoftClip diff
\* starts inside that interval.
C21_SoftClipOneDiff ==
    (diff.present /\ diff.done) =>
        \A e \in CigarIndices :
            LET n == diff.cigar[e].len
                p == diff.pos + offset_before(e, {"M", "=", "X", "D", "N", "S"})
            IN (/\ diff.cigar[e].kind = "S"
                /\ \A k \in 0..(n - 1) : view_contains(diff.refseq, p + k))
                   => /\ times_emitted(SequenceDiff("SoftClip", p, p + n, run_bases(e))) = 1
                      /\ \A d \in Emitted :
                            (d.kind = "SoftClip" /\ d.start >= p /\ d.start < p + n)
                                => d = SequenceDiff("SoftClip", p, p + n, run_bases(e))

\* C22 (as claimed): every emitted diff has its reference interval inside the view's range
\* [offset, offset + len); a zero-length Ins lies at a position of that range.
C22_DiffsInsideView ==
    diff.present =>
        \A d \in Emitted :
            LET lo == diff.refseq.offset
                hi == diff.refseq.offset + Len(diff.refseq.sequence)
            IN d.kind \notin {"Err", "Panic"} =>
                   /\ lo <= d.start
                   /\ d.end <= hi
                   /\ d.start < hi

\* The aligned pairs of the record, by index.
PairIndices == 1..Len(diff.aligned_pairs)

\* Pairs i..j are a maximal run of consecutive pairs of operation kind `kind`.
IsRun(i, j, kind) ==
    /\ i <= j
    /\ \A k \in i..j : diff.aligned_pairs[k].cigar.kind = kind
    /\ i > 1 => diff.aligned_pairs[i - 1].cigar.kind # kind
    /\ j < Len(diff.aligned_pairs) => diff.aligned_pairs[j + 1].cigar.kind # kind

\* The index of the last pair before i that has a reference position (0 when none has).
RECURSIVE last_ref_before(_)
last_ref_before(i) ==
    IF i <= 1 THEN 0
    ELSE IF diff.aligned_pairs[i - 1].ref_pos # None THEN i - 1
    ELSE last_ref_before(i - 1)

\* A deletion or reference-skip run that lies inside the view.
IsDelRunInView(i, j, kind) ==
    /\ kind \in {"D", "N"}
    /\ IsRun(i, j, kind)
    /\ \A k \in i..j : view_contains(diff.refseq, diff.aligned_pairs[k].ref_pos)

\* An insertion run whose last preceding pair with a reference position lies inside the
\* view.
IsInsRunInView(i, j) ==
    /\ IsRun(i, j, "I")
    /\ last_ref_before(i) # 0
    /\ view_contains(diff.refseq, diff.aligned_pairs[last_ref_before(i)].ref_pos)

\* C29 (as claimed): a run of n consecutive deleted (skipped) reference bases inside the view
\* yields exactly one Del (RefSkip) diff over [p, p + n), p being the first deleted position;
\* a run of n consecutive inserted bases yields exactly one Ins diff with a zero-length
\* interval at the reference position of the last preceding aligned pair that has one and
\* the n inserted bases in read order; runs of different kinds are never merged.
C29_RunsCollapsed ==
    (diff.present /\ diff.done) =>
        \A i \in PairIndices, j \in PairIndices :
            /\ \A kind \in {"D", "N"} :
                  IsDelRunInView(i, j, kind) =>
                      LET p == diff.aligned_pairs[i].ref_pos
                          name == IF kind = "D" THEN "Del" ELSE "RefSkip"
                      IN /\ times_emitted(SequenceDiff(name, p, p + (j - i + 1), <<>>)) = 1
                         /\ \A d \in Emitted :
                               (d.kind = name /\ d.start >= p /\ d.start <= p + (j - i))
                                   => d = SequenceDiff(name, p, p + (j - i + 1), <<>>)
            /\ IsInsRunInView(i, j) =>
                  LET q == diff.aligned_pairs[last_ref_before(i)].ref_pos
                      bases == [k \in 1..(j - i + 1) |->
                                   diff.record_sequence[diff.aligned_pairs[i + k - 1].read_pos + 1]]
                  IN /\ times_emitted(SequenceDiff("Ins", q, q, bases)) = 1
                     /\ \A d \in Emitted :
                           (d.kind = "Ins" /\ d.start = q) => d = SequenceDiff("Ins", q, q, bases)

(***************************************************************************)
(* Further properties of the alignment stack (SpecStack).                  *)
(***************************************************************************)
\* The entry that stands at the place of a cached entry: the cached alignment itself or
\* the incoming record of the same id that replaced it.
SameOrReplaced(old, new) == new = old \/ (new.id = old.id /\ InSeq(new, incoming))

\* The cached row `row` that survived the trim stands in `final` as a run of consecutive
\* entries, in its order.
RowKept(row, final) ==
    \E off \in 0..(Len(final) - Len(row)) :
        \A c \in 1..Len(row) : SameOrReplaced(row[c], final[off + c])

\* C26 (as claimed): update never moves a retained alignment: the cached rows that survive
\* the trim stay rows of the stack in their top-to-bottom order, every retained alignment
\* stays in its row and keeps its order within the row, and new alignments only stand right
\* of them, left of them or in rows below.
C26_RetainedNotMoved ==
    Updated =>
        /\ Len(rows) >= Len(Trimmed)
        /\ \A r \in 1..Len(Trimmed) : RowKept(Trimmed[r], rows[r])

\* C26 witness: an update trimmed a whole cached row away, kept another one and added
\* alignments around the retained ones.
C26_Witness ==
    /\ Updated
    /\ Len(prev_rows) >= 2
    /\ Len(Trimmed) >= 1 /\ Len(Trimmed) < Len(prev_rows)
    /\ Len(Items(rows)) > Len(Items(Trimmed))
    /\ Len(rows[1]) > Len(Trimmed[1])

\* The incoming alignments whose id is the id of a cached alignment that survived the trim.
Matched == {k \in 1..Len(incoming) :
               \E i \in 1..Len(Items(Trimmed)) : Items(Trimmed)[i].id = incoming[k].id}

\* How often alignment al stands in the rows rs.
Places(al, rs) ==
    Cardinality({i \in 1..Len(Items(rs)) :
                    /\ Items(rs)[i].id = al.id
                    /\ Items(rs)[i].start = al.start
                    /\ Items(rs)[i].end = al.end})

\* C30 (as claimed): after an update with pairwise distinct incoming ids (on a stack holding
\* no id twice) the stack holds the retained cached alignments, those id-matched replaced by
\* the incoming record, plus every unmatched incoming alignment, each at exactly one
\* place: count_after = count_retained + count_incoming - count_replaced.
C30_NothingLostOrInvented ==
    (Updated /\ DistinctIds(incoming) /\ NoIdTwice(prev_rows)) =>
        /\ Len(Items(rows)) = Len(Items(Trimmed)) + Len(incoming) - Cardinality(Matched)
        /\ \A k \in 1..Len(incoming) : Places(incoming[k], rows) = 1
        /\ \A i \in 1..Len(Items(Trimmed)) :
              (\A k \in 1..Len(incoming) : incoming[k].id # Items(Trimmed)[i].id)
                  => Places(Items(Trimmed)[i], rows) = 1

(***************************************************************************)
(* Further properties of the split grid (SpecGrid).                        *)
(***************************************************************************)
\* C25 (as claimed): whenever no call is running (the write lock of every split is free),
\* the region of the last FocusedRegionUpdated event emitted for a split is the split's
\* focused_region, also after a call in which set_focused_region returned an error.
C25_FrontendBackendInSync ==
    grid.present =>
        \A s \in 1..Len(grid.splits) :
            grid.announced[s] # <<>> => grid.splits[s].focused_region = grid.announced[s][1]

\* Region r lies within region outer.
WithinRegion(r, outer) ==
    r.seq_name = outer.seq_name /\ outer.start <= r.start /\ r.end <= outer.end

\* C27 (as claimed): a successful update_focused_region that moves a split to a different
\* region lying within its buffered region emits FocusedRegionUpdated (new region, split
\* id), then RegionZoomed (RegionPanned when the length is unchanged), then
\* FocusedSequenceUpdated, and the split's buffered region and buffered sequence differ
\* from the previous ones.
C27_WithinBufferedEvents ==
    [][(/\ grid'.op = "update_focused_region" /\ grid'.ret = "ok"
        /\ grid'.splits[grid'.split_id].focused_region
               # grid.splits[grid'.split_id].focused_region
        /\ WithinRegion(grid'.splits[grid'.split_id].focused_region,
                        grid.splits[grid'.split_id].buffered_region))
            => LET sid == grid'.split_id
                   old == grid.splits[sid]
                   new == grid'.splits[sid]
                   same_len == RegionLen(new.focused_region) = RegionLen(old.focused_region)
               IN /\ Len(grid'.events) >= 3
                  /\ grid'.events[1] = Ev("FocusedRegionUpdated", sid, 0)
                  /\ grid'.announced[sid] = <<new.focused_region>>
                  /\ grid'.events[2] = Ev(IF same_len THEN "RegionPanned" ELSE "RegionZoomed",
                                          sid, 0)
                  /\ grid'.events[3] = Ev("FocusedSequenceUpdated", sid, 0)
                  /\ new.buffered_region # old.buffered_region
                  /\ new.buffered_sequence # old.buffered_sequence]_vars

\* The places of the events of kind `name` among the events of the last call.
EventPlaces(g, name) == {i \in 1..Len(g.events) : g.events[i].event = name}

MaxNames == 2
MaxPairReads == 2
MaxPairPos == 1

\* AlignedRead::from_record: the id is the qname with the suffix /1 for the first read in
\* the template and /2 otherwise; mate_pos is <<>> (None) or <<region>> (Some).
AlignedRead(qname, is_first_in_template, region, mate_pos) ==
    [id |-> <<qname, IF is_first_in_template THEN 1 ELSE 2>>,
     qname |-> qname,
     region |-> region,
     mate_pos |-> mate_pos]

\* A variant of enum AlignedPair with the fields of its struct; read2 is <<>> (None) or
\* <<read>> (Some) and stays <<>> for the variants that hold a single read.
AlignedPair(kind, id, read1, read2, unit_interval) ==
    [kind |-> kind, id |-> id, read1 |-> read1, read2 |-> read2, interval |-> unit_interval]

\* PairedReads::new
PairedReads_new(read1, read2) ==
    LET other == IF read2 # <<>> THEN read2[1].region ELSE read1.mate_pos[1]
        start == Min(read1.region.start, other.start)
        end == Max(read1.region.end, other.end)
    IN AlignedPair("PairedReads", read1.qname, read1, read2, Interval(start, end))

\* UnpairedRead::new and DiscordantRead::new
single_read_new(kind, read) ==
    AlignedPair(kind, read.qname, read, <<>>, Interval(read.region.start, read.region.end))

\* The VecDeque that the first loop of pair_reads leaves under a name: the reads of that
\* name in input order.
reads_by_name(reads, qname) == SelectSeq(reads, LAMBDA read : read.qname = qname)

\* The keys in the order of their first insertion.
RECURSIVE first_seen_keys(_)
first_seen_keys(reads) ==
    IF reads = <<>> THEN <<>>
    ELSE LET front == first_seen_keys(SubSeq(reads, 1, Len(reads) - 1))
             qname == reads[Len(reads)].qname
         IN IF \E i \in 1..Len(front) : front[i] = qname THEN front ELSE Append(front, qname)

\* The names of set S in ascending order.
RECURSIVE ascending(_)
ascending(S) ==
    IF S = {} THEN <<>>
    ELSE LET least == CHOOSE x \in S : \A y \in S : x <= y
         IN <<least>> \o ascending(S \ {least})

\* reads_by_name.iter_mut(): the keys of the BTreeMap, in ascending order.
btree_keys(reads) == ascending({reads[i].qname : i \in 1..Len(reads)})

\* The body of the second loop of pair_reads on the reads of one name.
pair_of(group) ==
    LET read1 == group[1]
    IN IF read1.mate_pos # <<>>
       THEN IF read1.region.seq_name = read1.mate_pos[1].seq_name
            THEN PairedReads_new(read1, IF Len(group) >= 2 THEN <<group[2]>> ELSE <<>>)
            ELSE single_read_new("DiscordantRead", read1)
       ELSE single_read_new("UnpairedRead", read1)

\* pair_reads
pair_reads(reads) ==
    LET keys == btree_keys(reads)
    IN [k \in 1..Len(keys) |-> pair_of(reads_by_name(reads, keys[k]))]

\* The reads of the model: one base long, with every mate position of the model.
PairRegions == {Region(n, s, s + 1) : n \in SeqNames, s \in 0..MaxPairPos}
AlignedReads ==
    {AlignedRead(qname, first, region, mate_pos) :
        qname \in 1..MaxNames, first \in BOOLEAN, region \in PairRegions,
        mate_pos \in {<<>>} \cup {<<r>> : r \in PairRegions}}
ReadLists == UNION {[1..n -> AlignedReads] : n \in 0..MaxPairReads}

PairRest ==
    UNCHANGED <<stack_vars, split_vars, grid_vars, conc_vars, list_vars, interval_vars, diff_vars,
                sync_vars>>

PairInit ==
    /\ \E reads \in ReadLists :
          pairing = [present |-> TRUE, reads |-> reads, pairs |-> <<>>, done |-> FALSE]
    /\ StackIdle /\ SplitIdle /\ GridIdle /\ ConcIdle /\ ListIdle /\ IntervalIdle /\ DiffIdle
    /\ SyncIdle

\* pair_reads(reads)
PairReads ==
    /\ ~pairing.done
    /\ pairing' = [pairing EXCEPT !.pairs = pair_reads(pairing.reads), !.done = TRUE]
    /\ PairRest

PairNext == PairReads

SpecPair == PairInit /\ [][PairNext]_vars

(***************************************************************************)
(* Properties of pair_reads (SpecPair).                                    *)
(***************************************************************************)
\* What a read records about its mate.
MateClass(read) ==
    IF read.mate_pos = <<>> THEN "UnpairedRead"
    ELSE IF read.mate_pos[1].seq_name = read.region.seq_name THEN "PairedReads"
    ELSE "DiscordantRead"

\* The places in the input of the reads of a name.
PlacesOfName(qname) == {i \in 1..Len(pairing.reads) : pairing.reads[i].qname = qname}

\* C23 (as claimed): pair_reads emits exactly one unit per distinct read name, in ascending
\* order of the names whatever the input order; the unit of a name whose reads record the
\* same about their mate is PairedReads for a mate on the read's own contig (read2 being
\* the other read of the group, None when there is none), DiscordantRead for a mate on
\* another contig and UnpairedRead for no mate.
C23_OneUnitPerName ==
    (pairing.present /\ pairing.done) =>
        LET pairs == pairing.pairs
            reads == pairing.reads
        IN /\ {pairs[k].id : k \in 1..Len(pairs)} = {reads[i].qname : i \in 1..Len(reads)}
           /\ \A j, k \in 1..Len(pairs) : j < k => pairs[j].id < pairs[k].id
           /\ \A k \in 1..Len(pairs) :
                 LET places == PlacesOfName(pairs[k].id)
                 IN (\A i, j \in places : MateClass(reads[i]) = MateClass(reads[j])) =>
                        \E i \in places :
                            /\ pairs[k].kind = MateClass(reads[i])
                            /\ pairs[k].read1 = reads[i]
                            /\ pairs[k].kind = "PairedReads" =>
                                   IF places = {i} THEN pairs[k].read2 = <<>>
                                   ELSE \E j \in places \ {i} : pairs[k].read2 = <<reads[j]>>

\* C23 witness: two names given in descending order came out in ascending order, one as a
\* pair without its mate and one as a discordant read.
C23_Witness ==
    /\ pairing.present /\ pairing.done
    /\ Len(pairing.reads) = 2
    /\ pairing.reads[1].qname > pairing.reads[2].qname
    /\ Len(pairing.pairs) = 2
    /\ pairing.pairs[1].kind = "DiscordantRead"
    /\ pairing.pairs[2].kind = "PairedReads" /\ pairing.pairs[2].read2 = <<>>

\* C24 (as claimed): for a name with exactly two reads on one contig that record a mate
\* on that contig, one first in the template (suffix /1) and one not, the PairedReads has
\* the /1 read as read1 and the other read as read2, whatever their order in the input.
C24_FirstInTemplateIsRead1 ==
    (pairing.present /\ pairing.done) =>
        \A k \in 1..Len(pairing.pairs) :
            \A i, j \in PlacesOfName(pairing.pairs[k].id) :
                LET first == pairing.reads[i]
                    second == pairing.reads[j]
                IN (/\ PlacesOfName(pairing.pairs[k].id) = {i, j}
                    /\ first.id[2] = 1 /\ second.id[2] = 2
                    /\ first.region.seq_name = second.region.seq_name
                    /\ MateClass(first) = "PairedReads" /\ MateClass(second) = "PairedReads")
                       => /\ pairing.pairs[k].kind = "PairedReads"
                          /\ pairing.pairs[k].read1 = first
                          /\ pairing.pairs[k].read2 = <<second>>

(***************************************************************************)
(* Invariants and error paths of the alignment stack (SpecStack).          *)
(***************************************************************************)
\* C31 (as claimed): after any sequence of update and clear calls the stack holds no empty
\* row and extend_stack_left has not read the first element of an empty row (no panic);
\* the left extension ends with its list empty, so every alignment that replace_duplicates
\* passed on has been placed.
C31_NoEmptyRow ==
    /\ \A r \in 1..Len(rows) : rows[r] # <<>>
    /\ ret # "panic"
    /\ Updated => Len(Items(rows)) = Len(Items(Replaced.rows)) + Len(Replaced.novel)

\* C31 witness: an update whose trim emptied a cached row and whose left extension opened
\* a new row.
C31_Witness ==
    /\ Updated
    /\ Len(Trimmed) < Len(prev_rows)
    /\ Len(Trimmed) >= 1
    /\ Len(rows) > Len(Trimmed)

\* C32 (as claimed): update returns Ok for every incoming list and every region: no push
\* of replace_duplicates fails.
C32_UpdateNeverErr ==
    op = "update" => (ret # "err" /\ ~Replaced.err)

\* C32 witness: an update on a stack that holds alignments pushed two incoming alignments
\* of different starts as novel.
C32_Witness ==
    /\ Updated
    /\ prev_rows # <<>>
    /\ Len(Replaced.novel) = 2
    /\ Replaced.novel[1].start < Replaced.novel[2].start

(***************************************************************************)
(* Invariants and error paths of the split (SpecSplit).                    *)
(***************************************************************************)
\* Region inner is contained in region outer, on one contig.
ContainedIn(inner, outer) ==
    /\ inner.seq_name = outer.seq_name
    /\ outer.start <= inner.start
    /\ inner.end <= outer.end

\* C33 (as claimed): for a split whose focused region F ends at or before the contig length
\* S, F is contained in refresh_bound_region, refresh_bound_region is contained in
\* buffered_region, and buffered_region.end <= S.
C33_RegionsNested ==
    (split.present /\ split.focused_region.end <= ContigLen) =>
        /\ ContainedIn(split.focused_region, split.refresh_bound_region)
        /\ ContainedIn(split.refresh_bound_region, split.buffered_region)
        /\ split.buffered_region.end <= ContigLen

\* C33 witness: set_focused_region succeeded with a region whose expansion is clipped at the
\* end of the contig and whose three regions differ.
C33_Witness ==
    /\ split.present
    /\ split_op = "set_focused_region" /\ split_ret = "ok"
    /\ split.focused_region.end <= ContigLen
    /\ split.focused_region.end + FocusedLen > ContigLen
    /\ split.refresh_bound_region # split.focused_region
    /\ split.buffered_region # split.refresh_bound_region

\* C34 (as claimed): a present buffered_sequence covers exactly the split's buffered_region:
\* it starts at buffered_region.start and has its length.
C34_SequenceCoversBuffered ==
    (split.present /\ split.buffered_sequence # NoSequence) =>
        /\ split.buffered_sequence[1].seq_name = split.buffered_region.seq_name
        /\ split.buffered_sequence[1].start = split.buffered_region.start
        /\ RegionLen(split.buffered_sequence[1]) = RegionLen(split.buffered_region)

\* C35 (as claimed): buffered_sequence is present if and only if the focused region is no
\* longer than max_render_window.
C35_SequenceIffRenderable ==
    split.present =>
        (split.buffered_sequence # NoSequence <=> FocusedLen <= split.max_render_window)

\* C35 witness: set_max_render_window dropped the sequence of a split, and a later call that
\* widened the window read it again.
C35_Witness ==
    /\ split.present
    /\ split_op = "set_max_render_window" /\ split_ret = "ok"
    /\ FocusedLen > 0
    /\ split.buffered_sequence = <<split.buffered_region>>
    /\ split.buffered_region # split.focused_region

\* C36 (as claimed): a set_focused_region call that returns an error leaves focused_region,
\* buffered_region, refresh_bound_region and buffered_sequence as they were.
C36_ErrLeavesSplit ==
    [][(split_op' = "set_focused_region" /\ split_ret' = "err") => split' = split]_vars

\* C36 witness: set_focused_region failed on a split that holds a buffered sequence.
C36_Witness ==
    /\ split.present
    /\ split_op = "set_focused_region" /\ split_ret = "err"
    /\ split.buffered_sequence # NoSequence

\* The units of the output that hold read in one of their slots (read1 or read2), as pairs
\* of the unit's place and the slot.
SlotsOf(read) ==
    {<<k, slot>> \in (1..Len(pairing.pairs)) \X {"read1", "read2"} :
        IF slot = "read1" THEN pairing.pairs[k].read1 = read
        ELSE pairing.pairs[k].read2 = <<read>>}

\* C40 (as claimed): pair_reads drops no read: every input read is held by exactly one
\* emitted unit, as its read, read1 or read2, so a read occurs in the slots of the output
\* as often as in the input.
C40_NoReadDropped ==
    (pairing.present /\ pairing.done) =>
        \A i \in 1..Len(pairing.reads) :
            Cardinality(SlotsOf(pairing.reads[i])) =
                Cardinality({j \in 1..Len(pairing.reads) : pairing.reads[j] = pairing.reads[i]})

(***************************************************************************)
(* The focused split under concurrent calls (SpecConc).                    *)
(***************************************************************************)
\* C37 (as claimed): in every reachable state of the grid, the intermediate states of an
\* add_split call included, focused_split names a split that is in the `splits` map.
C37_FocusedSplitPresent ==
    conc.present => ~get_split_fails(conc, conc.focused_split)

(***************************************************************************)
(* interface/split_grid.rs : the locks of one split (SpecSync)             *)
(*                                                                         *)
(* One split of a SplitGrid, its parking_lot RwLock and the stack readers  *)
(* of its tracks, under concurrent add_track, update_focused_region and    *)
(* set_max_render_window calls.  A guard that lives to the end of its      *)
(* statement and guards nothing else is taken and dropped in one step; a   *)
(* guard held across another acquisition stays in `readers` or             *)
(* `stack_held` until it is dropped.  The events, which are all that       *)
(* prev_region_len and bound_state decide, are not kept.                   *)
(***************************************************************************)
\* The update_focused_region threads of the model.
MaxSyncUpdates == 2
SyncUpdateThreads == {UpdateNames[i] : i \in 1..Min(MaxSyncUpdates, Len(UpdateNames))}
SyncThreads == {"add_track", "set_window"} \cup SyncUpdateThreads

\* The regions passed to update_focused_region; the last one lies beyond its contig.
SyncRegions == {Region("X", 0, 1), Region("X", 2, 3), Region("Y", 4, 5)}

\* The read guard of thread th that lives to the end of update_focused_region, and the one
\* a worker of th holds for the match on buffered_sequence.
PayloadGuard(th) == <<th, "payload">>
WorkerGuard(th, track_id) == <<th, track_id>>

\* RwLock<Split>::read: a reader enters unless a writer is parked on the lock (a writer that
\* holds it drops it within its step).
split_read(s) == s.waiting = {}

\* RwLock<Split>::write: the parked writer enters once no guard is left.
split_write(s) == s.readers = {}

\* RwLock<StackReader>::write
stack_write(s, track_id) == s.stack_held[track_id] = "none"

\* The grid after SplitGrid::new(max_render_window) and one completed add_track.
SyncGrid(max_render_window) ==
    LET res == Split_new(default_focused_region, max_render_window, default_focused_region.end)
    IN [present |-> TRUE,
        split |-> res.split,
        readers |-> {},
        waiting |-> {},
        tracks |-> {OldTrack},
        alignments |-> {OldTrack},
        stack_region |-> [t \in ConcTracks |->
                             IF t = OldTrack THEN <<res.split.buffered_region>> ELSE <<>>],
        stack_held |-> [t \in ConcTracks |-> "none"],
        pc |-> [th \in SyncThreads |-> "idle"],
        arg |-> [th \in SyncThreads |-> None],
        workers |-> [th \in SyncThreads |-> [t \in ConcTracks |-> "none"]],
        err |-> [th \in SyncThreads |-> FALSE]]

\* ---- add_track ----
\* self.tracks.insert(track.id(), RwLock::new(track))
sync_add_track_insert(s) ==
    [s EXCEPT !.tracks = @ \cup {NewTrack}, !.pc["add_track"] = "readers"]

\* init_track_alignments: get_split_ids and add_stack_reader for the split; the new stack
\* has read no region yet.
sync_add_stack_reader(s) ==
    [s EXCEPT !.alignments = @ \cup {NewTrack}, !.pc["add_track"] = "copy"]

\* update_alignments: split.read().buffered_region.clone() and
\* split.read().buffered_sequence.clone()
sync_update_alignments_copy(s) ==
    [s EXCEPT !.arg["add_track"] = s.split.buffered_region, !.pc["add_track"] = "stack"]

\* update_alignments: stack_reader.write().read_stacked(&buffered_region, &seq) or
\* clear_stack(&buffered_region), on the copies; then add_track returns.
sync_update_alignments_write(s) ==
    [s EXCEPT !.stack_region[NewTrack] = <<s.arg["add_track"]>>, !.pc["add_track"] = "done"]

\* ---- update_focused_region ----
\* get_split and the reads of the split before the write lock; Ok(()) at once when the
\* region is the focused one.
sync_update_focused_region_begin(s, th, genomic_region) ==
    IF s.split.focused_region = genomic_region
    THEN [s EXCEPT !.arg[th] = genomic_region, !.pc[th] = "done"]
    ELSE [s EXCEPT !.arg[th] = genomic_region, !.pc[th] = "write"]

\* split.write(): the thread parks as a writer.
sync_split_write_park(s, th, pc) ==
    [s EXCEPT !.waiting = @ \cup {th}, !.pc[th] = pc]

\* With the write lock: the events, set_focused_region and drop(split_write_lock); an Err
\* of set_focused_region is returned.
sync_set_focused_region(s, th) ==
    LET res == set_focused_region(s.split, s.arg[th], get_seq_length(s.arg[th].seq_name))
    IN [s EXCEPT !.waiting = @ \ {th},
                 !.split = res.split,
                 !.err[th] = ~res.ok,
                 !.pc[th] = IF res.ok THEN "payload" ELSE "done"]

\* The sequences as strings, and the payload that borrows &split.read().buffered_region:
\* the temporary read guard lives as long as the payload, to the end of the function.
sync_payload(s, th) ==
    [s EXCEPT !.readers = @ \cup {PayloadGuard(th)}, !.pc[th] = "iterate"]

\* update_split_alignments: get_split and self.tracks.par_iter()
sync_update_split_alignments_iter(s, th) ==
    [s EXCEPT !.workers[th] = [t \in ConcTracks |-> IF t \in s.tracks THEN "todo" ELSE "none"],
              !.pc[th] = "update"]

\* A worker: get_stack_reader(&split.read().id, key)?, then the match on
\* &split.read().buffered_sequence, whose guard lives to the end of the match.  Without
\* the stack reader the call fails and the workers not yet started are dropped.
sync_worker_begin(s, th, track_id) ==
    IF track_id \notin s.alignments
    THEN [s EXCEPT !.err[th] = TRUE,
                   !.workers[th] = [t \in ConcTracks |-> IF @[t] = "todo" THEN "done" ELSE @[t]]]
    ELSE [s EXCEPT !.readers = @ \cup {WorkerGuard(th, track_id)},
                   !.workers[th][track_id] = "guard"]

\* A worker: stack_reader.write(), the receiver of read_stacked / clear_stack.
sync_worker_lock(s, th, track_id) ==
    [s EXCEPT !.stack_held[track_id] = th, !.workers[th][track_id] = "locked"]

\* A worker: &split.read().buffered_region, the argument; read_stacked / clear_stack store
\* the region in the stack; the guards are dropped.
sync_worker_read(s, th, track_id) ==
    [s EXCEPT !.stack_region[track_id] = <<s.split.buffered_region>>,
              !.stack_held[track_id] = "none",
              !.readers = @ \ {WorkerGuard(th, track_id)},
              !.workers[th][track_id] = "done"]

\* After update_split_alignments: its Err is returned, or every track's stack reader is
\* looked up for the AlignmentsUpdated events; the guard of the payload is dropped.
sync_update_focused_region_emit(s, th) ==
    [s EXCEPT !.err[th] = @ \/ \E t \in s.tracks : t \notin s.alignments,
              !.readers = @ \ {PayloadGuard(th)},
              !.pc[th] = "done"]

\* ---- set_max_render_window ----
\* *self.max_render_window.write() = max_render_window; for entry in self.splits.iter()
sync_set_window_write(s, max_render_window) ==
    [s EXCEPT !.arg["set_window"] = max_render_window, !.pc["set_window"] = "write"]

\* entry.value().write().set_max_render_window(max_render_window)?; Ok(())
sync_set_window_split(s) ==
    LET res == set_max_render_window(s.split, s.arg["set_window"])
    IN [s EXCEPT !.waiting = @ \ {"set_window"},
                 !.split = res.split,
                 !.err["set_window"] = ~res.ok,
                 !.pc["set_window"] = "done"]

\* ---- the specification ----
SyncRest ==
    UNCHANGED <<stack_vars, split_vars, grid_vars, conc_vars, list_vars, interval_vars, diff_vars,
                pair_vars>>

SyncInit ==
    /\ \E max_render_window \in GridWindows : sync = SyncGrid(max_render_window)
    /\ StackIdle /\ SplitIdle /\ GridIdle /\ ConcIdle /\ ListIdle /\ IntervalIdle /\ DiffIdle
    /\ PairIdle

SyncAddTrackInsert ==
    /\ sync.pc["add_track"] = "idle"
    /\ sync' = sync_add_track_insert(sync)
    /\ SyncRest

SyncAddStackReader ==
    /\ sync.pc["add_track"] = "readers"
    /\ sync' = sync_add_stack_reader(sync)
    /\ SyncRest

SyncUpdateAlignmentsCopy ==
    /\ sync.pc["add_track"] = "copy"
    /\ split_read(sync)
    /\ sync' = sync_update_alignments_copy(sync)
    /\ SyncRest

SyncUpdateAlignmentsWrite ==
    /\ sync.pc["add_track"] = "stack"
    /\ stack_write(sync, NewTrack)
    /\ sync' = sync_update_alignments_write(sync)
    /\ SyncRest

SyncUpdateFocusedRegionBegin ==
    /\ \E th \in SyncUpdateThreads :
          /\ sync.pc[th] = "idle"
          /\ split_read(sync)
          /\ \E genomic_region \in SyncRegions :
                sync' = sync_update_focused_region_begin(sync, th, genomic_region)
    /\ SyncRest

SyncUpdateFocusedRegionPark ==
    /\ \E th \in SyncUpdateThreads :
          /\ sync.pc[th] = "write"
          /\ sync' = sync_split_write_park(sync, th, "parked")
    /\ SyncRest

SyncSetFocusedRegion ==
    /\ \E th \in SyncUpdateThreads :
          /\ sync.pc[th] = "parked"
          /\ split_write(sync)
          /\ sync' = sync_set_focused_region(sync, th)
    /\ SyncRest

SyncPayload ==
    /\ \E th \in SyncUpdateThreads :
          /\ sync.pc[th] = "payload"
          /\ split_read(sync)
          /\ sync' = sync_payload(sync, th)
    /\ SyncRest

SyncUpdateSplitAlignmentsIter ==
    /\ \E th \in SyncUpdateThreads :
          /\ sync.pc[th] = "iterate"
          /\ sync' = sync_update_split_alignments_iter(sync, th)
    /\ SyncRest

SyncWorkerBegin ==
    /\ \E th \in SyncUpdateThreads, track_id \in ConcTracks :
          /\ sync.pc[th] = "update" /\ sync.workers[th][track_id] = "todo"
          /\ split_read(sync)
          /\ sync' = sync_worker_begin(sync, th, track_id)
    /\ SyncRest

SyncWorkerLock ==
    /\ \E th \in SyncUpdateThreads, track_id \in ConcTracks :
          /\ sync.pc[th] = "update" /\ sync.workers[th][track_id] = "guard"
          /\ stack_write(sync, track_id)
          /\ sync' = sync_worker_lock(sync, th, track_id)
    /\ SyncRest

SyncWorkerRead ==
    /\ \E th \in SyncUpdateThreads, track_id \in ConcTracks :
          /\ sync.pc[th] = "update" /\ sync.workers[th][track_id] = "locked"
          /\ split_read(sync)
          /\ sync' = sync_worker_read(sync, th, track_id)
    /\ SyncRest

SyncUpdateFocusedRegionEmit ==
    /\ \E th \in SyncUpdateThreads :
          /\ sync.pc[th] = "update"
          /\ \A t \in ConcTracks : sync.workers[th][t] \in {"none", "done"}
          /\ sync' = sync_update_focused_region_emit(sync, th)
    /\ SyncRest

SyncSetWindowWrite ==
    /\ sync.pc["set_window"] = "idle"
    /\ \E max_render_window \in GridWindows :
          sync' = sync_set_window_write(sync, max_render_window)
    /\ SyncRest

SyncSetWindowPark ==
    /\ sync.pc["set_window"] = "write"
    /\ sync' = sync_split_write_park(sync, "set_window", "parked")
    /\ SyncRest

SyncSetWindowSplit ==
    /\ sync.pc["set_window"] = "parked"
    /\ split_write(sync)
    /\ sync' = sync_set_window_split(sync)
    /\ SyncRest

SyncNext ==
    \/ SyncAddTrackInsert
    \/ SyncAddStackReader
    \/ SyncUpdateAlignmentsCopy
    \/ SyncUpdateAlignmentsWrite
    \/ SyncUpdateFocusedRegionBegin
    \/ SyncUpdateFocusedRegionPark
    \/ SyncSetFocusedRegion
    \/ SyncPayload
    \/ SyncUpdateSplitAlignmentsIter
    \/ SyncWorkerBegin
    \/ SyncWorkerLock
    \/ SyncWorkerRead
    \/ SyncUpdateFocusedRegionEmit
    \/ SyncSetWindowWrite
    \/ SyncSetWindowPark
    \/ SyncSetWindowSplit

SpecSync == SyncInit /\ [][SyncNext]_vars

\* A step of thread th or of one of its parallel workers.
SyncStep(th) ==
    SyncNext /\ (sync'.pc[th] # sync.pc[th] \/ sync'.workers[th] # sync.workers[th])

\* Every thread that can take a step eventually takes one: the operating system schedules
\* each thread and each parallel worker, and file reads terminate.
SpecSyncFair == SpecSync /\ \A th \in SyncThreads : WF_vars(SyncStep(th))

(***************************************************************************)
(* Properties of the locks of one split (SpecSync, SpecSyncFair).          *)
(***************************************************************************)
\* No call is in flight and none has failed.
SyncQuiet ==
    /\ \A th \in SyncThreads : sync.pc[th] \in {"idle", "done"}
    /\ \A th \in SyncThreads : ~sync.err[th]

\* C38 (as claimed): whenever no call is in flight and none has failed, the stack of every
\* track holds the split's current buffered_region.
C38_StacksAtBufferedRegion ==
    (sync.present /\ SyncQuiet) =>
        \A t \in sync.alignments : sync.stack_region[t] = <<sync.split.buffered_region>>

\* Every call has returned.
SyncReturned == \A th \in SyncThreads : sync.pc[th] = "done"

\* C39 (as claimed): every call eventually returns, under any interleaving of concurrent
\* update_focused_region calls on one split and set_max_render_window calls.
C39_EveryCallReturns == sync.present ~> SyncReturned

====
